---- MODULE Spec2Model ----
(***************************************************************************)
(* HomoVision (timurias/studio): the matrix kernel (src/lib/matrix),       *)
(* the homography solver and RANSAC estimator (src/lib/homography.ts) and  *)
(* the client component that stores the homography and warps the preview   *)
(* (src/components/homovision-client.tsx).                                 *)
(*                                                                         *)
(* Numbers.  The program computes on IEEE doubles.  The model computes on  *)
(* exact rationals <<n, d>> (d > 0, lowest terms), so every arithmetic     *)
(* operation of the code is the same operation here without rounding; the  *)
(* comparisons against 1e-9 and 5.0 are the code's comparisons.            *)
(* Matrices, vectors and point lists are functions on 0..len-1, as the     *)
(* arrays of the code are.                                                 *)
(***************************************************************************)
EXTENDS Integers, Sequences, FiniteSets, TLC

\* ------------------------------------------------------------------------
\* Exact rational arithmetic (the number type of the code)
\* ------------------------------------------------------------------------
Abs(n) == IF n < 0 THEN -n ELSE n

RECURSIVE Gcd(_, _)
Gcd(a, b) == IF b = 0 THEN a ELSE Gcd(b, a % b)

\* the rational n/d in lowest terms with a positive denominator
Norm(n, d) ==
  LET g == Gcd(Abs(n), Abs(d))
      s == IF d < 0 THEN -1 ELSE 1
  IN  <<s * (n \div g), s * (d \div g)>>

R(n) == <<n, 1>>
Zero == <<0, 1>>
One == <<1, 1>>

RNeg(a) == <<-a[1], a[2]>>
RAbs(a) == <<Abs(a[1]), a[2]>>

\* a + b over the least common denominator
RAdd(a, b) ==
  LET g == Gcd(a[2], b[2])
  IN  Norm(a[1] * (b[2] \div g) + b[1] * (a[2] \div g), (a[2] \div g) * b[2])

RSub(a, b) == RAdd(a, RNeg(b))

\* a * b, cancelling across before multiplying
RMul(a, b) ==
  LET g1 == Gcd(Abs(a[1]), b[2])
      g2 == Gcd(Abs(b[1]), a[2])
  IN  IF a[1] = 0 \/ b[1] = 0 THEN Zero
      ELSE <<(a[1] \div g1) * (b[1] \div g2), (a[2] \div g2) * (b[2] \div g1)>>

\* a / b for b # 0
RDiv(a, b) == RMul(a, IF b[1] < 0 THEN <<-b[2], -b[1]>> ELSE <<b[2], b[1]>>)

\* a < b and a <= b, compared over the least common denominator
RLt(a, b) ==
  LET g == Gcd(a[2], b[2])
  IN  a[1] * (b[2] \div g) < b[1] * (a[2] \div g)

RLe(a, b) == ~RLt(b, a)

\* the literal 1e-9 of the code is 1 / EpsDen
EpsDen == 1000000000

\* Math.abs(v) < 1e-9, i.e. |n| * 10^9 < d, decided by dividing d by |n|
BelowEps(v) ==
  LET n == Abs(v[1])
  IN  IF n = 0 THEN TRUE
      ELSE \/ (v[2] \div n) > EpsDen
           \/ (v[2] \div n) = EpsDen /\ (v[2] % n) > 0

\* floor(a)
RFloor(a) == a[1] \div a[2]

\* null: the empty array stands for it (no matrix, vector or list of the
\* program that is compared with null is empty)
Null == << >>

\* ------------------------------------------------------------------------
\* Matrix kernel (lib/matrix)
\* ------------------------------------------------------------------------
Size(a) == Cardinality(DOMAIN a)

\* an array with its elements evaluated
Arr(f) == f @@ << >>

\* the inner loop of the pivot search: i runs from i to m - 1, i_max is
\* replaced only by a strictly larger magnitude
\* a search that keeps the current row; Pivoting depends on the comparison
PivotSearchNone(B, k, i, i_max, m) == i_max

RECURSIVE PivotSearch(_, _, _, _, _)
PivotSearch(B, k, i, i_max, m) ==
  IF i >= m THEN i_max
  ELSE IF RLt(RAbs(B[i_max][k]), RAbs(B[i][k]))
       THEN PivotSearch(B, k, i + 1, i, m)
       ELSE PivotSearch(B, k, i + 1, i_max, m)

\* [B[h], B[i_max]] = [B[i_max], B[h]]
SwapRows(B, h, i_max) ==
  Arr([i \in DOMAIN B |-> IF i = h THEN B[i_max] ELSE IF i = i_max THEN B[h] ELSE B[i]])

\* the elimination of column k below pivot row h: f = B[i][k] / B[h][k],
\* B[i][k] = 0, B[i][j] -= B[h][j] * f for j > k; columns left of k and
\* rows up to h are not touched
EliminateBelow(B, h, k, m, n) ==
  Arr([i \in DOMAIN B |->
     IF i <= h THEN B[i]
     ELSE LET f == RDiv(B[i][k], B[h][k])
          IN  Arr([j \in DOMAIN B[i] |->
                 IF j < k THEN B[i][j]
                 ELSE IF j = k THEN Zero
                 ELSE RSub(B[i][j], RMul(B[h][j], f))])])

\* the while loop of gaussianElimination from pivot row h and column k
RECURSIVE GaussLoop(_, _, _, _, _)
GaussLoop(B, h, k, m, n) ==
  IF ~(h < m /\ k < n) THEN B
  ELSE LET i_max == PivotSearch(B, k, h + 1, h, m)
       IN  IF BelowEps(B[i_max][k])
           THEN GaussLoop(B, h, k + 1, m, n)
           ELSE LET S == SwapRows(B, h, i_max)
                    E == EliminateBelow(S, h, k, m, n)
                IN  GaussLoop(E, h + 1, k + 1, m, n)

\* what a call that throws an Error gives: no array of numbers
Thrown == <<Null>>

\* what a call gives that reads .length of A[0] or B[0] on an array without
\* rows, or an element of a row that is not there: the TypeError of reading
\* a property of undefined
TypeErrorThrown == <<Null, Null>>

\* a call has raised
Raised(out) == out = Thrown \/ out = TypeErrorThrown

\* the reduced matrix has a negligible entry on its diagonal
RankDeficient(B) ==
  \E r \in DOMAIN B : r < Size(B[r]) /\ BelowEps(B[r][r])

\* B, unless a column had no usable pivot
Strict(B) == IF RankDeficient(B) THEN Thrown ELSE B

\* an elimination that raises when a column has no usable pivot;
\* SolverTotal depends on such a column being skipped
gaussianEliminationStrict(A) ==
  IF Size(A) = 0 THEN TypeErrorThrown
  ELSE Strict(GaussLoop(A, 0, 0, Size(A), Size(A[0])))

gaussianElimination(A) ==
  IF Size(A) = 0 THEN TypeErrorThrown
  ELSE GaussLoop(A, 0, 0, Size(A), Size(A[0]))

\* C[i][j] += A[i][k] * B[k][j] for k from k to A_cols - 1
RECURSIVE MulSum(_, _, _, _, _)
MulSum(A, B, i, j, k) ==
  IF k >= Size(A[0]) THEN Zero
  ELSE RAdd(RMul(A[i][k], B[k][j]), MulSum(A, B, i, j, k + 1))

\* a test that lets a product through when A has fewer columns than B has
\* rows; MismatchRaises depends on the test being an inequality
IncompatibleIfMore(A_cols, B_rows) == A_cols > B_rows

\* if (A_cols !== B_rows)
Incompatible(A_cols, B_rows) == A_cols # B_rows

\* multiply(A, B): A[0].length and B[0].length are read first, then the
\* call throws when A_cols !== B_rows, before C is allocated
multiply(A, B) ==
  IF Size(A) = 0 \/ Size(B) = 0 THEN TypeErrorThrown
  ELSE IF Incompatible(Size(A[0]), Size(B)) THEN Thrown
  ELSE Arr([i \in DOMAIN A |-> Arr([j \in DOMAIN B[0] |-> MulSum(A, B, i, j, 0)])])

\* a determinant whose middle term is added; RoundTrip depends on the sign
Det3Plus(m) ==
  RAdd(RAdd(RMul(m[0][0], RSub(RMul(m[1][1], m[2][2]), RMul(m[2][1], m[1][2]))),
            RMul(m[0][1], RSub(RMul(m[1][0], m[2][2]), RMul(m[1][2], m[2][0])))),
       RMul(m[0][2], RSub(RMul(m[1][0], m[2][1]), RMul(m[1][1], m[2][0]))))

\* the determinant of invert3x3, by cofactor expansion along row 0
Det3(m) ==
  RAdd(RSub(RMul(m[0][0], RSub(RMul(m[1][1], m[2][2]), RMul(m[2][1], m[1][2]))),
            RMul(m[0][1], RSub(RMul(m[1][0], m[2][2]), RMul(m[1][2], m[2][0])))),
       RMul(m[0][2], RSub(RMul(m[1][0], m[2][1]), RMul(m[1][1], m[2][0]))))

\* a test that rejects only a determinant of 0; NullIffSmallDet depends on
\* the threshold
NotInvertibleAtZero(det) == det = Zero

\* if (Math.abs(det) < 1e-9)
NotInvertible(det) == BelowEps(det)

\* transpose(A): B[j][i] = A[i][j], B of cols rows
transpose(A) ==
  IF Size(A) = 0 THEN TypeErrorThrown
  ELSE Arr([j \in 0..(Size(A[0]) - 1) |-> Arr([i \in DOMAIN A |-> A[i][j]])])

\* invert3x3: throws unless A is 3 x 3; null when |det| < 1e-9, else the adjugate
\* times invDet = 1.0 / det, entry by entry as the code writes them
invert3x3(A) ==
  IF Size(A) # 3 \/ Size(A[0]) # 3 THEN Thrown
  ELSE
  LET m == A
      det == Det3(m)
  IN  IF NotInvertible(det) THEN Null
      ELSE
        LET invDet == RDiv(One, det)
            r0 == <<RMul(RSub(RMul(m[1][1], m[2][2]), RMul(m[2][1], m[1][2])), invDet),
                    RMul(RSub(RMul(m[0][2], m[2][1]), RMul(m[0][1], m[2][2])), invDet),
                    RMul(RSub(RMul(m[0][1], m[1][2]), RMul(m[0][2], m[1][1])), invDet)>>
            r1 == <<RMul(RSub(RMul(m[1][2], m[2][0]), RMul(m[1][0], m[2][2])), invDet),
                    RMul(RSub(RMul(m[0][0], m[2][2]), RMul(m[0][2], m[2][0])), invDet),
                    RMul(RSub(RMul(m[1][0], m[0][2]), RMul(m[0][0], m[1][2])), invDet)>>
            r2 == <<RMul(RSub(RMul(m[1][0], m[2][1]), RMul(m[2][0], m[1][1])), invDet),
                    RMul(RSub(RMul(m[2][0], m[0][1]), RMul(m[0][0], m[2][1])), invDet),
                    RMul(RSub(RMul(m[0][0], m[1][1]), RMul(m[1][0], m[0][1])), invDet)>>
            rows == <<r0, r1, r2>>
        IN  Arr([r \in 0..2 |-> Arr([c \in 0..2 |-> rows[r + 1][c + 1]])])

\* ------------------------------------------------------------------------
\* Homography solver (lib/homography.ts)
\* ------------------------------------------------------------------------
\* a point {x, y}
Pt(x, y) == [x |-> x, y |-> y]

\* the two rows pushed for correspondence i
RowX(p1, p2) ==
  <<RNeg(p1.x), RNeg(p1.y), R(-1), Zero, Zero, Zero,
    RMul(p1.x, p2.x), RMul(p1.y, p2.x), p2.x>>
\* a second row whose last entry is p2.x; ExactRecovery depends on it being
\* p2.y
RowYLastX(p1, p2) ==
  <<Zero, Zero, Zero, RNeg(p1.x), RNeg(p1.y), R(-1),
    RMul(p1.x, p2.y), RMul(p1.y, p2.y), p2.x>>

RowY(p1, p2) ==
  <<Zero, Zero, Zero, RNeg(p1.x), RNeg(p1.y), R(-1),
    RMul(p1.x, p2.y), RMul(p1.y, p2.y), p2.y>>

\* the 8 x 9 matrix A built from points1[0..3], points2[0..3]
BuildA(points1, points2) ==
  Arr([r \in 0..7 |->
     LET i == r \div 2
         row == IF r % 2 = 0 THEN RowX(points1[i], points2[i])
                ELSE RowY(points1[i], points2[i])
     IN  Arr([j \in 0..8 |-> row[j + 1]])])

\* a sum that stops before column 8; IdentityRecovered depends on the last
\* column being included
RECURSIVE RowSumBelow8(_, _, _, _)
RowSumBelow8(B, h, i, j) ==
  IF j >= 8 THEN Zero
  ELSE RAdd(RMul(B[i][j], h[j]), RowSumBelow8(B, h, i, j + 1))

\* sum += B[i][j] * h[j] for j from j to 8
RECURSIVE RowSum(_, _, _, _)
RowSum(B, h, i, j) ==
  IF j >= 9 THEN Zero
  ELSE RAdd(RMul(B[i][j], h[j]), RowSum(B, h, i, j + 1))

\* the back-substitution loop from row i down to row 0
RECURSIVE BackSubstitute(_, _, _)
BackSubstitute(B, h, i) ==
  IF i < 0 THEN h
  ELSE LET sum == RowSum(B, h, i, i + 1)
           hi == IF BelowEps(B[i][i]) THEN Zero
                 ELSE RDiv(RNeg(sum), B[i][i])
       IN  BackSubstitute(B, [h EXCEPT ![i] = hi], i - 1)

\* a gauge of 2; Normalized1 depends on h[8] being 1
GaugeTwo == Arr([j \in 0..8 |-> IF j = 8 THEN R(2) ELSE Zero])

\* h = new Array(9).fill(0); h[8] = 1
Gauge == Arr([j \in 0..8 |-> IF j = 8 THEN One ELSE Zero])

\* the body of the try block after the elimination: with B raised, or
\* without the rows 0..7 the loop reads, the catch branch returns null
SolveFrom(B) ==
  IF Raised(B) THEN Null
  ELSE IF Size(B) < 8 THEN Null
  ELSE BackSubstitute(B, Gauge, 7)

solveHomogeneous(A) == SolveFrom(gaussianElimination(A))

\* H = [[h[0], h[1], h[2]], [h[3], h[4], h[5]], [h[6], h[7], h[8]]]
Reshaped(h) == [i \in 0..2 |-> [j \in 0..2 |-> h[3 * i + j]]]

\* H as it is when |H[2][2]| < 1e-9, otherwise every entry divided by
\* H[2][2]
Normalized(H) ==
  IF BelowEps(H[2][2]) THEN H
  ELSE [i \in 0..2 |-> [j \in 0..2 |-> RDiv(H[i][j], H[2][2])]]

\* what is returned for the solution h
Shaped(h) == IF h = Null THEN Null ELSE Normalized(Reshaped(h))

solveHomographyFor4Points(points1, points2) ==
  Shaped(solveHomogeneous(BuildA(points1, points2)))

\* result[i] += A[i][j] * v[j] for j from j to cols - 1
RECURSIVE DotFrom(_, _, _)
DotFrom(row, v, j) ==
  IF j >= Size(row) THEN Zero
  ELSE RAdd(RMul(row[j], v[j]), DotFrom(row, v, j + 1))

multiplyMatrixVector(A, v) ==
  IF Size(A) = 0 THEN TypeErrorThrown
  ELSE IF Size(A[0]) # Size(v) THEN Thrown
  ELSE [i \in DOMAIN A |-> DotFrom(A[i], v, 0)]

\* projected = H . [p.x, p.y, 1]
Projected(H, p) == multiplyMatrixVector(H, [j \in 0..2 |-> <<p.x, p.y, One>>[j + 1]])

\* the point (projected[0] / projected[2], projected[1] / projected[2])
Dehomogenize(v) == Pt(RDiv(v[0], v[2]), RDiv(v[1], v[2]))

\* ------------------------------------------------------------------------
\* State
\* ------------------------------------------------------------------------
VARIABLES
  points1,           \* useState points1: the points marked on image 1
  points2,           \* useState points2: the points marked on image 2
  homographyMatrix,  \* useState homographyMatrix (Null or a 3 x 3 matrix)
  isCalculating,     \* useState isCalculating
  timer,             \* the pending setTimeout callback of
                     \* handleCalculateHomography: Null or the lists it captured
  pc,                \* position of the calculateHomography call being followed
  ret,               \* the value calculateHomography returned
  i,                 \* RANSAC: trial counter
  bestH,             \* RANSAC: bestH
  maxInliers,        \* RANSAC: maxInliers
  fits,              \* RANSAC: the candidates the samples of 4 indices give
                     \* and their inlier counts (what a trial can compute)
  Hstar,             \* history: the ground truth the correspondences come from
  ran,               \* history: the estimators run and the list lengths they got
  topCount,          \* history: the highest inlier count of the trials so far
  topFirst,          \* history: the candidate of the earliest trial with topCount
  sampledClean,      \* history: a trial drew 4 consistent correspondences, no
                     \* three collinear
  tied,              \* history: a trial after the first with topCount gave a
                     \* different candidate with the same count
  argA,              \* invert3x3: the matrix A of the call being followed
  invA,              \* invert3x3: what invert3x3(A) returned
  invInv,            \* invert3x3: what invert3x3 returned on that result
  ipc,               \* invert3x3: position of the calls being followed
  image1,            \* useState image1: Null or the source raster
  image2,            \* useState image2: Null or the destination (base) raster
  splitX,            \* useState splitX
  splitY,            \* useState splitY
  canvas,            \* the preview canvas: width, height, RGBA data and the
                     \* pixels a guide line was stroked on
  draws,             \* the calls of drawTransformedImage whose images are
                     \* still loading, oldest first
  effectPending,     \* the redraw effect has yet to run for the last render
  toasts,            \* the descriptions of the toasts shown
  last,              \* history: the last call whose onImagesLoaded ran to
                     \* its end, and what it wrote on the canvas
  opA,               \* multiply, multiplyMatrixVector: the matrix A of the call
  opB,               \* multiply: the matrix B; multiplyMatrixVector: the vector v
  opOut,             \* what the call returned, or that it threw
  opPc,              \* which of the two is called, and whether it has returned
  heap,              \* the arrays and point objects allocated, by address
  heap0,             \* history: the heap when the call was made
  margs,             \* the addresses of the arguments of the call
  mres,              \* what the call returned: an address, null or an error
  mfn,               \* the function called
  mpc,               \* whether it has returned
  indices,           \* RANSAC, sampling followed draw by draw: the Set indices
                     \* of the trial, in insertion order
  rng,               \* the state of the generator behind Math.random, which
                     \* every call advances (kept as a phase)
  fitted,            \* history: the 4-point fits done by the call
  scored,            \* history: the correspondences scored by the call
  gA,                \* gaussianElimination followed turn by turn: the argument
  gB,                \* the copy B being reduced
  gh,                \* the pivot row h
  gk,                \* the pivot column k
  gprev,             \* history: B, h, k before the last turn of the while loop
                     \* and the i_max it found
  gpc,               \* where the call is: "off", "call", "loop" or "returned"
  nextImageToMark,   \* component state: the image the next point goes to
  isAiDetecting,     \* component state: a call of handleAutoDetect awaits its
                     \* result
  clicked            \* history: the last call of handlePointAdd, or null

calcVars == <<points1, points2, homographyMatrix, isCalculating, timer, pc, ret,
              i, bestH, maxInliers, fits, Hstar, ran, topCount, topFirst,
              sampledClean, tied>>

invVars == <<argA, invA, invInv, ipc>>

warpVars == <<image1, image2, splitX, splitY, canvas, draws, effectPending,
              last>>

mulVars == <<opA, opB, opOut, opPc>>

\* the variables of the calls of the matrix kernel that are followed on
\* their own
memVars == <<heap, heap0, margs, mres, mfn, mpc>>

\* the variables of the sampling of the trials
drawVars == <<indices, rng, fitted, scored>>

\* the variables of the call of gaussianElimination followed turn by turn
gaussVars == <<gA, gB, gh, gk, gprev, gpc>>

libVars == <<mulVars, memVars, drawVars, gaussVars>>

\* the marking of the points
markVars == <<nextImageToMark, isAiDetecting, clicked>>

vars == <<calcVars, invVars, warpVars, toasts, libVars, markVars>>

\* the variables the calls of calculateHomography leave alone
notCalc == <<invVars, warpVars, libVars, markVars>>

\* the variables the calls of invert3x3 leave alone
notInv == <<calcVars, warpVars, toasts, libVars, markVars>>

\* the variables the preview leaves alone
notWarp == <<calcVars, invVars, libVars, markVars>>

\* ------------------------------------------------------------------------
\* calculateHomography (lib/homography.ts) and its caller
\* ------------------------------------------------------------------------
iterations == 1000

\* distance < threshold with threshold = 5.0, as dx^2 + dy^2 < 5^2
threshold == 5

\* bound: Math.floor(Math.random() * n_points) is drawn below DrawBound
DrawBound == 5

\* the index lists Array.from(indices) can be: 4 distinct indices in the
\* order they were drawn
Samples(n_points) ==
  LET I == 0..((IF n_points < DrawBound THEN n_points ELSE DrawBound) - 1)
  IN  {s \in I \X I \X I \X I :
         \A a, b \in 1..4 : a # b => s[a] # s[b]}

\* randomIndices.map(idx => points[idx])
SampleOf(points, s) == Arr([k \in 0..3 |-> points[s[k + 1]]])

\* step 3 of a trial: the inlier count of H over correspondences j..n-1
RECURSIVE CountFrom(_, _, _, _)
CountFrom(H, p1, p2, j) ==
  IF j >= Size(p1) THEN 0
  ELSE LET projected == Projected(H, p1[j])
       IN  IF BelowEps(projected[2]) THEN CountFrom(H, p1, p2, j + 1)
           ELSE LET q == Dehomogenize(projected)
                    dx == RSub(p2[j].x, q.x)
                    dy == RSub(p2[j].y, q.y)
                    d2 == RAdd(RMul(dx, dx), RMul(dy, dy))
                IN  (IF RLt(d2, R(threshold * threshold)) THEN 1 ELSE 0)
                      + CountFrom(H, p1, p2, j + 1)

CountInliers(H, p1, p2) == CountFrom(H, p1, p2, 0)

\* correspondence k agrees exactly with the ground truth
Consistent(H, p1, p2, k) ==
  /\ H # Null
  /\ ~BelowEps(Projected(H, p1[k])[2])
  /\ Dehomogenize(Projected(H, p1[k])) = p2[k]

\* a, b, c lie on one line
Collinear(a, b, c) ==
  RSub(RMul(RSub(b.x, a.x), RSub(c.y, a.y)),
       RMul(RSub(b.y, a.y), RSub(c.x, a.x))) = Zero

NoThreeCollinear(pts) ==
  \A a, b, c \in DOMAIN pts :
     (a < b /\ b < c) => ~Collinear(pts[a], pts[b], pts[c])

\* the back-substitution meets no |B[i][i]| < 1e-9 (the elimination skipped
\* none of the columns 0..7)
DiagUsable(p1, p2) ==
  LET B == gaussianElimination(BuildA(p1, p2))
  IN  \A k \in 0..7 : ~BelowEps(B[k][k])

\* steps 1-3 of a trial that draws sample s: the fit and its score; clean
\* records that the 4 sampled correspondences agree with the ground truth
\* truth, no three of the sampled source points are collinear and the
\* elimination finds a usable pivot in each column
TrialOn(p1, p2, truth, s) ==
  LET H == solveHomographyFor4Points(SampleOf(p1, s), SampleOf(p2, s))
  IN  [H |-> H,
       inliers |-> IF H = Null THEN 0 ELSE CountInliers(H, p1, p2),
       clean |-> /\ \A k \in 1..4 : Consistent(truth, p1, p2, s[k])
                 /\ NoThreeCollinear(SampleOf(p1, s))
                 /\ DiagUsable(SampleOf(p1, s), SampleOf(p2, s))]

\* what a trial can compute, over all the samples it can draw
TrialOutcomes(p1, p2, truth) ==
  {TrialOn(p1, p2, truth, s) : s \in Samples(Size(p1))}

\* a guard that lets 3 correspondences through; SizesRespected depends on
\* the bound being 4
InsufficientBelow3(p1, p2) == Size(p1) < 3 \/ Size(p1) # Size(p2)

\* the guard of calculateHomography
Insufficient(p1, p2) == Size(p1) < 4 \/ Size(p1) # Size(p2)

\* the two guards of handleCalculateHomography
HandlerRejects(p1, p2) == Size(p1) < 4 \/ Size(p1) # Size(p2)

\* an update that also replaces on an equal count; SelectionRule depends on
\* the comparison being strict
KeepsLatest(inliers, maxIn) == inliers >= maxIn

\* an update that always replaces; OutlierRejection depends on the best
\* candidate being kept
KeepsEvery(inliers, maxIn) == TRUE

\* if (inliers > maxInliers) { maxInliers = inliers; bestH = H; }
KeepsBest(inliers, maxIn) == inliers > maxIn

\* the toast of the timer callback for the matrix it stores
StoredToast(matrix) ==
  IF matrix # Null THEN {"Homography matrix calculated."}
  ELSE {"Could not calculate homography. Ensure points are not collinear."}

\* the toast of the guard of handleCalculateHomography that rejects
RejectToast(p1, p2) ==
  IF Size(p1) < 4 THEN {"At least 4 pairs of points are required."}
  ELSE {"The number of points on both images must be equal."}

\* the body of calculateHomography up to the RANSAC loop, called on (p1, p2);
\* stored says whether the caller is the timer callback, which stores the
\* returned matrix and clears isCalculating
Enter(p1, p2, stored) ==
  LET n_points == Size(p1)
  IN  IF Insufficient(p1, p2)
      THEN /\ ret' = Null
           /\ pc' = "done"
           /\ homographyMatrix' = IF stored THEN Null ELSE homographyMatrix
           /\ toasts' = IF stored THEN toasts \cup StoredToast(Null) ELSE toasts
           /\ isCalculating' = IF stored THEN FALSE ELSE isCalculating
           /\ UNCHANGED <<i, bestH, maxInliers, fits, ran>>
      ELSE IF n_points = 4
      THEN LET H == solveHomographyFor4Points(p1, p2)
           IN  /\ ret' = H
               /\ pc' = "done"
               /\ homographyMatrix' = IF stored THEN H ELSE homographyMatrix
               /\ toasts' = IF stored THEN toasts \cup StoredToast(H) ELSE toasts
               /\ isCalculating' = IF stored THEN FALSE ELSE isCalculating
               /\ ran' = ran \cup {[what |-> "solver", n1 |-> Size(p1), n2 |-> Size(p2)]}
               /\ UNCHANGED <<i, bestH, maxInliers, fits>>
      ELSE /\ i' = 0
           /\ bestH' = Null
           /\ maxInliers' = -1
           /\ fits' = TrialOutcomes(p1, p2, Hstar)
           /\ pc' = "ransac"
           /\ ran' = ran \cup {[what |-> "ransac", n1 |-> Size(p1), n2 |-> Size(p2)]}
           /\ UNCHANGED <<ret, homographyMatrix, isCalculating, toasts>>

\* handleCalculateHomography: the two guards, then setIsCalculating(true) and
\* setTimeout(..., 50) with the lists of this render
HandleCalculate ==
  /\ UNCHANGED notCalc
  /\ pc = "idle"
  /\ IF HandlerRejects(points1, points2)
     THEN /\ pc' = "rejected"
          /\ toasts' = toasts \cup RejectToast(points1, points2)
          /\ UNCHANGED <<isCalculating, timer>>
     ELSE /\ isCalculating' = TRUE
          /\ timer' = [points1 |-> points1, points2 |-> points2]
          /\ pc' = "scheduled"
          /\ UNCHANGED toasts
  /\ UNCHANGED <<points1, points2, homographyMatrix, ret, i, bestH, maxInliers,
                 fits, Hstar, ran, topCount, topFirst, sampledClean, tied>>

\* the timer callback: calculateHomography(points1, points2) on the captured
\* lists, setHomographyMatrix(matrix), setIsCalculating(false)
TimerFire ==
  /\ UNCHANGED notCalc
  /\ pc = "scheduled"
  /\ timer # Null
  /\ Enter(timer.points1, timer.points2, TRUE)
  /\ timer' = IF pc' = "done" THEN Null ELSE timer
  /\ UNCHANGED <<points1, points2, Hstar, topCount, topFirst, sampledClean, tied>>

\* calculateHomography called on the lists as they are (it is exported)
DirectCall ==
  /\ UNCHANGED notCalc
  /\ pc = "idle"
  /\ Enter(points1, points2, FALSE)
  /\ UNCHANGED <<points1, points2, timer, Hstar, topCount, topFirst, sampledClean, tied>>

\* one trial of the loop: a sample is drawn, fitted and scored
Trial ==
  /\ UNCHANGED notCalc
  /\ pc = "ransac"
  /\ i < iterations
  /\ \E t \in fits :
       LET H == t.H
           inliers == t.inliers
       IN  /\ IF H = Null
              THEN UNCHANGED <<bestH, maxInliers, topCount, topFirst, tied>>
              ELSE /\ IF KeepsBest(inliers, maxInliers)
                      THEN maxInliers' = inliers /\ bestH' = H
                      ELSE UNCHANGED <<bestH, maxInliers>>
                   /\ topCount' = IF inliers >= topCount THEN inliers ELSE topCount
                   /\ topFirst' = IF inliers > topCount THEN H ELSE topFirst
                   /\ tied' = IF inliers > topCount THEN FALSE
                              ELSE (tied \/ (inliers = topCount /\ H # topFirst))
           /\ sampledClean' = (sampledClean \/ t.clean)
  /\ i' = i + 1
  /\ UNCHANGED <<points1, points2, homographyMatrix, isCalculating, timer, pc,
                 ret, fits, Hstar, ran, toasts>>

\* after the loop: null if maxInliers < 4, else bestH; the timer callback
\* then stores it
Finish ==
  /\ UNCHANGED notCalc
  /\ pc = "ransac"
  /\ i = iterations
  /\ ret' = IF maxInliers < 4 THEN Null ELSE bestH
  /\ pc' = "done"
  /\ IF timer # Null
     THEN /\ homographyMatrix' = ret'
          /\ toasts' = toasts \cup StoredToast(ret')
          /\ isCalculating' = FALSE
     ELSE UNCHANGED <<homographyMatrix, isCalculating, toasts>>
  /\ timer' = Null
  /\ UNCHANGED <<points1, points2, i, bestH, maxInliers, fits, Hstar, ran,
                 topCount, topFirst, sampledClean, tied>>

\* ------------------------------------------------------------------------
\* The calls followed: calculateHomography on bounded inputs
\* ------------------------------------------------------------------------
\* bounds of the inputs
MaxShift == 1
MaxLen == 5

\* a point list from integer pairs
MkPts(seq) == Arr([k \in 0..(Len(seq) - 1) |-> Pt(R(seq[k + 1][1]), R(seq[k + 1][2]))])

\* a 3 x 3 matrix from integer rows
MkMat(rows) == Arr([r \in 0..2 |-> Arr([c \in 0..2 |-> R(rows[r + 1][c + 1])])])

\* the first n elements of a list
Prefix(pts, n) == Arr([k \in 0..(n - 1) |-> pts[k]])

\* the images of the points under H
Through(H, pts) == Arr([k \in DOMAIN pts |-> Dehomogenize(Projected(H, pts[k]))])

Identity3 == MkMat(<<<<1, 0, 0>>, <<0, 1, 0>>, <<0, 0, 1>>>>)

\* ground truths: identity, translation, general projective, perspective
GroundTruths ==
  { Identity3,
    MkMat(<<<<1, 0, 2>>, <<0, 1, 1>>, <<0, 0, 1>>>>),
    MkMat(<<<<2, 1, 3>>, <<1, 3, 1>>, <<1, 0, 1>>>>),
    MkMat(<<<<1, 0, 0>>, <<0, 1, 0>>, <<1, 1, 1>>>>) }

\* 4 source points: square, general quadrilateral, three on a line, four on
\* a slanted and on a horizontal line, four equal, one repeated
Shapes ==
  { <<<<0, 0>>, <<1, 0>>, <<0, 1>>, <<1, 1>>>>,
    <<<<0, 0>>, <<2, 1>>, <<1, 3>>, <<3, 2>>>>,
    <<<<0, 0>>, <<1, 1>>, <<2, 2>>, <<0, 2>>>>,
    <<<<0, 0>>, <<1, 1>>, <<2, 2>>, <<3, 3>>>>,
    <<<<0, 1>>, <<1, 1>>, <<2, 1>>, <<3, 1>>>>,
    <<<<1, 1>>, <<1, 1>>, <<1, 1>>, <<1, 1>>>>,
    <<<<0, 0>>, <<1, 0>>, <<0, 1>>, <<0, 0>>>> }

Shifted(shape, dx, dy) ==
  [k \in 1..Len(shape) |-> <<shape[k][1] + dx, shape[k][2] + dy>>]

\* 4 correspondences that agree with a ground truth
ProjectedInputs ==
  { [p1 |-> MkPts(Shifted(sh, dx, dy)),
     p2 |-> Through(H, MkPts(Shifted(sh, dx, dy))),
     H |-> H] : sh \in Shapes, dx \in 0..MaxShift, dy \in 0..MaxShift,
                H \in GroundTruths }

\* a rectangle 2^-30 px wide and 1 px high, and its image under the
\* stretch of x by 2^30
TinySide == 2^30
TinyInput ==
  LET e == <<1, TinySide>>
      sq == Arr([k \in 0..3 |->
               <<Pt(Zero, Zero), Pt(e, Zero), Pt(Zero, One), Pt(e, One)>>[k + 1]])
      H == MkMat(<<<<TinySide, 0, 0>>, <<0, 1, 0>>, <<0, 0, 1>>>>)
  IN  [p1 |-> sq, p2 |-> Through(H, sq), H |-> H]

\* lists of every length up to MaxLen, and of unequal lengths: six points on
\* a line sent to scattered points, and six grid points shifted by (2, 1)
\* with the fifth destination moved by 30 px
LineSrc == MkPts(<<<<0, 0>>, <<10, 0>>, <<20, 0>>, <<30, 0>>, <<40, 0>>, <<50, 0>>>>)
LineDst == MkPts(<<<<0, 0>>, <<10, 20>>, <<40, 0>>, <<0, 30>>, <<25, 25>>, <<60, 10>>>>)
GridSrc == MkPts(<<<<0, 0>>, <<1, 0>>, <<0, 1>>, <<1, 1>>, <<2, 0>>, <<2, 1>>>>)
GridDst == MkPts(<<<<2, 1>>, <<3, 1>>, <<2, 2>>, <<3, 2>>, <<34, 1>>, <<4, 2>>>>)

LengthInputs ==
  { [p1 |-> Prefix(b[1], n1), p2 |-> Prefix(b[2], n2), H |-> Null] :
      b \in {<<LineSrc, LineDst>>, <<GridSrc, GridDst>>},
      n1 \in 0..(IF MaxLen < 6 THEN MaxLen ELSE 6),
      n2 \in 0..(IF MaxLen < 6 THEN MaxLen ELSE 6) }

\* 15 correspondences that agree with the translation by (2, 1) and 5 whose
\* destination is more than 20 px off (at indices 4, 6, 17, 18, 19)
OutlierSrc ==
  MkPts(<<<<0, 0>>, <<10, 0>>, <<0, 10>>, <<10, 10>>, <<30, 30>>, <<20, 0>>,
          <<5, 5>>, <<0, 20>>, <<20, 10>>, <<10, 20>>, <<20, 20>>, <<30, 0>>,
          <<30, 10>>, <<30, 20>>, <<0, 30>>, <<10, 30>>, <<20, 30>>,
          <<15, 5>>, <<25, 15>>, <<5, 25>>>>)
OutlierOffsets ==
  (4 :> <<25, 0>>) @@ (6 :> <<0, 30>>) @@ (17 :> <<-22, 3>>)
    @@ (18 :> <<21, 21>>) @@ (19 :> <<0, -21>>)
OutlierInput ==
  LET H == MkMat(<<<<1, 0, 2>>, <<0, 1, 1>>, <<0, 0, 1>>>>)
      exact == Through(H, OutlierSrc)
  IN  [p1 |-> OutlierSrc,
       p2 |-> Arr([k \in DOMAIN exact |->
                 IF k \in DOMAIN OutlierOffsets
                 THEN Pt(RAdd(exact[k].x, R(OutlierOffsets[k][1])),
                         RAdd(exact[k].y, R(OutlierOffsets[k][2])))
                 ELSE exact[k]]),
       H |-> H]

CalcInputs == ProjectedInputs \cup {TinyInput} \cup LengthInputs \cup {OutlierInput}

\* calculateHomography about to be called on the lists of inp, with the
\* matrix stored in the component
CalcStart(inp, stored) ==
  /\ points1 = inp.p1
  /\ points2 = inp.p2
  /\ Hstar = inp.H
  /\ homographyMatrix = stored
  /\ isCalculating = FALSE
  /\ timer = Null
  /\ pc = "idle"
  /\ ret = Null
  /\ i = 0
  /\ bestH = Null
  /\ maxInliers = -1
  /\ fits = {}
  /\ ran = {}
  /\ topCount = -1
  /\ topFirst = Null
  /\ sampledClean = FALSE
  /\ tied = FALSE

\* no call of invert3x3 is followed
InvAtRest ==
  /\ argA = Null
  /\ invA = Null
  /\ invInv = Null
  /\ ipc = "off"

\* no image is loaded and nothing was drawn: the state of the component
\* after construction (the canvas is taken as empty)
WarpAtRest ==
  /\ image1 = Null
  /\ image2 = Null
  /\ splitX = 50
  /\ splitY = 50
  /\ canvas = [w |-> 0, h |-> 0, data |-> << >>, stroked |-> {}]
  /\ draws = << >>
  /\ effectPending = FALSE
  /\ toasts = {}
  /\ last = Null

\* no call of multiply or multiplyMatrixVector is followed
MulAtRest ==
  /\ opA = Null
  /\ opB = Null
  /\ opOut = Null
  /\ opPc = "off"

\* no call is followed on the heap
MemAtRest ==
  /\ heap = << >>
  /\ heap0 = << >>
  /\ margs = << >>
  /\ mres = Null
  /\ mfn = "none"
  /\ mpc = "off"

\* the sampling of the trials is not followed draw by draw
DrawAtRest ==
  /\ indices = << >>
  /\ rng = 0
  /\ fitted = 0
  /\ scored = 0

\* no call of gaussianElimination is followed turn by turn
GaussAtRest ==
  /\ gA = Null
  /\ gB = Null
  /\ gh = 0
  /\ gk = 0
  /\ gprev = Null
  /\ gpc = "off"

\* the marking as the component is constructed
MarkAtRest ==
  /\ nextImageToMark = 1
  /\ isAiDetecting = FALSE
  /\ clicked = Null

\* no call of the matrix kernel is followed on its own
LibAtRest == MulAtRest /\ MemAtRest /\ DrawAtRest /\ GaussAtRest

InitCalc ==
  /\ MarkAtRest
  /\ \E inp \in CalcInputs : CalcStart(inp, Null)
  /\ InvAtRest
  /\ WarpAtRest
  /\ LibAtRest

NextCalc == HandleCalculate \/ TimerFire \/ DirectCall \/ Trial \/ Finish

SpecCalc == InitCalc /\ [][NextCalc]_vars

\* ------------------------------------------------------------------------
\* The calls followed: invert3x3 on bounded 3 x 3 matrices, and again on
\* its result
\* ------------------------------------------------------------------------
\* bound of the entries of the matrices
MaxEntry == 1

\* the 3 x 3 matrices of entries 0..MaxEntry
SmallMatrices ==
  LET E == 0..MaxEntry
      Rows == E \X E \X E
  IN  {MkMat(<<r0, r1, r2>>) : r0 \in Rows, r1 \in Rows, r2 \in Rows}

\* the matrix of rows (a, b, 0), (c, d, 0), (0, 0, 1), a..d rationals
Affine2(a, b, c, d) ==
  Arr([r \in 0..2 |-> Arr([k \in 0..2 |->
     <<<<a, b, Zero>>, <<c, d, Zero>>, <<Zero, Zero, One>>>>[r + 1][k + 1]])])

\* matrices with determinants around 1e-9 and 1e9: determinant 2^-30,
\* exactly 1e-9, -1e-9, exactly 1e9 (diagonal and not), 2e9, -2e9, and
\* 2^-30 of negative entries and not diagonal
ExtremeMatrices ==
  { Affine2(<<1, 2^30>>, Zero, Zero, One),
    Affine2(<<1, 10^9>>, Zero, Zero, One),
    Affine2(<<-1, 10^9>>, Zero, Zero, One),
    Affine2(R(10^9), Zero, Zero, One),
    Affine2(R(10^5), One, Zero, R(10^4)),
    Affine2(R(2 * 10^9), Zero, Zero, One),
    Affine2(One, Zero, Zero, R(-2 * 10^9)),
    Affine2(<<-1, 2^15>>, Zero, Zero, <<-1, 2^15>>),
    Affine2(<<1, 2^15>>, One, Zero, <<1, 2^15>>) }

InvInputs == SmallMatrices \cup ExtremeMatrices

\* calculateHomography is not followed
CalcAtRest == CalcStart([p1 |-> Null, p2 |-> Null, H |-> Null], Null)

InitInv ==
  /\ MarkAtRest
  /\ argA \in InvInputs
  /\ invA = Null
  /\ invInv = Null
  /\ ipc = "start"
  /\ CalcAtRest
  /\ WarpAtRest
  /\ LibAtRest

\* invert3x3(A)
Invert ==
  /\ ipc = "start"
  /\ invA' = invert3x3(argA)
  /\ ipc' = "inverted"
  /\ UNCHANGED <<argA, invInv>>
  /\ UNCHANGED notInv

\* invert3x3 on the matrix the first call returned
InvertAgain ==
  /\ ipc = "inverted"
  /\ invA # Null
  /\ invInv' = invert3x3(invA)
  /\ ipc' = "again"
  /\ UNCHANGED <<argA, invA>>
  /\ UNCHANGED notInv

NextInv == Invert \/ InvertAgain

SpecInv == InitInv /\ [][NextInv]_vars

\* ------------------------------------------------------------------------
\* The calls followed: multiply and multiplyMatrixVector on arrays of every
\* shape
\* ------------------------------------------------------------------------
\* bound: the numbers of rows and of columns
MaxDim == 2

\* the arrays of len numbers 0..MaxEntry
Vectors(len) == {Arr(v) : v \in [0..(len - 1) -> {R(e) : e \in 0..MaxEntry}]}

\* the matrices of r rows and c columns; for r = 0 the array without rows
Matrices(r, c) == {Arr(A) : A \in [0..(r - 1) -> Vectors(c)]}

\* the matrices of every shape, the empty array and rows without elements
\* included
ShapedMatrices == UNION {Matrices(r, c) : r \in 0..MaxDim, c \in 0..MaxDim}

ShapedVectors == UNION {Vectors(len) : len \in 0..MaxDim}

InitMul ==
  /\ MarkAtRest
  /\ opA \in ShapedMatrices
  /\ \/ opPc = "multiply" /\ opB \in ShapedMatrices
     \/ opPc = "multiplyMatrixVector" /\ opB \in ShapedVectors
  /\ opOut = Null
  /\ CalcAtRest
  /\ InvAtRest
  /\ WarpAtRest
  /\ MemAtRest
  /\ DrawAtRest
  /\ GaussAtRest

\* the variables the calls of multiply and multiplyMatrixVector leave alone
notMul == <<calcVars, invVars, warpVars, toasts, memVars, drawVars, gaussVars,
           markVars>>

\* multiply(A, B)
Multiply ==
  /\ opPc = "multiply"
  /\ opOut' = multiply(opA, opB)
  /\ opPc' = "multiplied"
  /\ UNCHANGED <<opA, opB>>
  /\ UNCHANGED notMul

\* multiplyMatrixVector(A, v)
MultiplyVector ==
  /\ opPc = "multiplyMatrixVector"
  /\ opOut' = multiplyMatrixVector(opA, opB)
  /\ opPc' = "applied"
  /\ UNCHANGED <<opA, opB>>
  /\ UNCHANGED notMul

NextMul == Multiply \/ MultiplyVector

SpecMul == InitMul /\ [][NextMul]_vars

\* ------------------------------------------------------------------------
\* gaussianElimination, the while loop followed turn by turn
\* ------------------------------------------------------------------------
\* a magnitude below 1e-9, and 1e-9 itself
Tiny == <<1, EpsDen + 1>>

Eps == <<1, EpsDen>>

\* the r x c matrices with entries in E
MatricesOver(r, c, E) == [0..(r - 1) -> [0..(c - 1) -> E]]

\* the r x c matrices with entries 0, 1, -1, and in the first column also
\* a negligible one
NegligibleFirst(r, c) ==
  {M \in MatricesOver(r, c, {Zero, One, RNeg(One), Tiny}) :
     \A a \in 0..(r - 1), b \in 1..(c - 1) : M[a][b] # Tiny}

\* the arguments: matrices of up to 3 rows and 3 columns with zero,
\* negligible and usable entries, single columns with entries at and around
\* 1e-9, and the matrix of one row without columns
GaussInputs ==
  NegligibleFirst(2, 2)
    \cup NegligibleFirst(2, 3)
    \cup NegligibleFirst(3, 2)
    \cup MatricesOver(3, 3, {Zero, One})
    \cup UNION {MatricesOver(r, 1, {Zero, Tiny, Eps, RNeg(Eps), One}) : r \in 1..3}
    \cup MatricesOver(1, 0, {Zero})

\* the variables the call leaves alone
notGauss == <<calcVars, invVars, warpVars, toasts, mulVars, memVars, drawVars,
             markVars>>

\* gaussianElimination(A) up to the while loop
GaussEnter ==
  /\ gpc = "call"
  /\ gB' = gA
  /\ gh' = 0
  /\ gk' = 0
  /\ gpc' = "loop"
  /\ UNCHANGED <<gA, gprev>>
  /\ UNCHANGED notGauss

\* a turn of the while loop that finds no pivot in column k
GaussSkip ==
  /\ gpc = "loop"
  /\ gh < Size(gA) /\ gk < Size(gA[0])
  /\ LET i_max == PivotSearch(gB, gk, gh + 1, gh, Size(gA))
     IN  /\ BelowEps(gB[i_max][gk])
         /\ gprev' = [B |-> gB, h |-> gh, k |-> gk, i_max |-> i_max]
  /\ gk' = gk + 1
  /\ UNCHANGED <<gA, gB, gh, gpc>>
  /\ UNCHANGED notGauss

\* a turn of the while loop that swaps the pivot row into place and
\* eliminates below it
GaussPivot ==
  /\ gpc = "loop"
  /\ gh < Size(gA) /\ gk < Size(gA[0])
  /\ LET i_max == PivotSearch(gB, gk, gh + 1, gh, Size(gA))
     IN  /\ ~BelowEps(gB[i_max][gk])
         /\ gprev' = [B |-> gB, h |-> gh, k |-> gk, i_max |-> i_max]
         /\ gB' = EliminateBelow(SwapRows(gB, gh, i_max), gh, gk,
                                 Size(gA), Size(gA[0]))
  /\ gh' = gh + 1
  /\ gk' = gk + 1
  /\ UNCHANGED <<gA, gpc>>
  /\ UNCHANGED notGauss

\* return B
GaussReturn ==
  /\ gpc = "loop"
  /\ ~(gh < Size(gA) /\ gk < Size(gA[0]))
  /\ gpc' = "returned"
  /\ UNCHANGED <<gA, gB, gh, gk, gprev>>
  /\ UNCHANGED notGauss

InitGauss ==
  /\ MarkAtRest
  /\ gA \in GaussInputs
  /\ gB = Null
  /\ gh = 0
  /\ gk = 0
  /\ gprev = Null
  /\ gpc = "call"
  /\ CalcAtRest
  /\ InvAtRest
  /\ WarpAtRest
  /\ MulAtRest
  /\ MemAtRest
  /\ DrawAtRest

NextGauss == GaussEnter \/ GaussSkip \/ GaussPivot \/ GaussReturn

SpecGauss == InitGauss /\ [][NextGauss]_vars

\* ------------------------------------------------------------------------
\* calculateHomography on more than 4 correspondences, the sampling of each
\* trial followed draw by draw
\* ------------------------------------------------------------------------
\* 5 correspondences in general position that agree with the translation
\* by (2, 1)
RansacInput ==
  LET H == MkMat(<<<<1, 0, 2>>, <<0, 1, 1>>, <<0, 0, 1>>>>)
      src == MkPts(<<<<0, 0>>, <<2, 1>>, <<1, 3>>, <<3, 2>>, <<5, 4>>>>)
  IN  [p1 |-> src, p2 |-> Through(H, src), H |-> H]

\* the values of Math.floor(Math.random() * n_points)
RandomIndex(n_points) == 0..(n_points - 1)

\* the lists of 4 distinct values of RandomIndex(n_points)
FullSamples(n_points) ==
  LET I == RandomIndex(n_points)
  IN  {s \in I \X I \X I \X I : \A a, b \in 1..4 : a # b => s[a] # s[b]}

\* the outcomes of a table of trials, each with the samples that give it
BySample(table) ==
  Arr([t \in {table[s] : s \in DOMAIN table} |->
         {s \in DOMAIN table : table[s] = t}])

\* steps 2 and 3 of a trial, for each sample it can draw
RansacFits(pts1, pts2, H) ==
  BySample(Arr([s \in FullSamples(Size(pts1)) |-> TrialOn(pts1, pts2, H, s)]))

\* the outcome of the trial on the sample
FitOf(table, sample) == CHOOSE t \in DOMAIN table : sample \in table[t]

\* an add that keeps duplicates; SamplingSound depends on indices being a
\* Set
Pushed(set, idx) == Append(set, idx)

\* indices.add(idx) on a Set, which keeps the insertion order
Added(set, idx) ==
  IF \E k \in 1..Len(set) : set[k] = idx THEN set ELSE Append(set, idx)

\* a loop test that stops one trial early; TrialsCounted depends on the
\* bound
MoreTrialsButOne(n) == n < iterations - 1

\* i < iterations
MoreTrials(n) == n < iterations

\* the variables the sampling leaves alone
notDraw == <<invVars, warpVars, toasts, mulVars, memVars, gaussVars, markVars>>

\* calculateHomography(points1, points2) up to the first trial
RansacCall ==
  /\ pc = "idle"
  /\ ~Insufficient(points1, points2)
  /\ Size(points1) # 4
  /\ i' = 0
  /\ bestH' = Null
  /\ maxInliers' = -1
  /\ pc' = "sampling"
  /\ UNCHANGED <<points1, points2, homographyMatrix, isCalculating, timer, ret,
                 fits, Hstar, ran, topCount, topFirst, sampledClean, tied>>
  /\ UNCHANGED drawVars
  /\ UNCHANGED notDraw

\* one turn of while (indices.size < 4): a value is drawn and added; with 4
\* indices the loop is left
Draw ==
  /\ pc = "sampling"
  /\ MoreTrials(i)
  /\ \E idx \in RandomIndex(Size(points1)) : indices' = Added(indices, idx)
  /\ rng' = 1 - rng
  /\ pc' = IF Len(indices') < 4 THEN "sampling" ELSE "fitting"
  /\ UNCHANGED <<points1, points2, homographyMatrix, isCalculating, timer, ret, i,
                 bestH, maxInliers, fits, Hstar, ran, topCount, topFirst,
                 sampledClean, tied>>
  /\ UNCHANGED <<fitted, scored>>
  /\ UNCHANGED notDraw

\* the rest of the trial: the fit of the sample, the scoring pass over all
\* correspondences unless the fit is null, the update, i++
Fit ==
  /\ pc = "fitting"
  /\ LET t == FitOf(fits, indices)
     IN  /\ fitted' = fitted + 1
         /\ IF t.H = Null
            THEN UNCHANGED <<scored, bestH, maxInliers>>
            ELSE /\ scored' = scored + Size(points1)
                 /\ IF KeepsBest(t.inliers, maxInliers)
                    THEN maxInliers' = t.inliers /\ bestH' = t.H
                    ELSE UNCHANGED <<bestH, maxInliers>>
  /\ i' = i + 1
  /\ indices' = << >>
  /\ pc' = "sampling"
  /\ UNCHANGED <<points1, points2, homographyMatrix, isCalculating, timer, ret,
                 fits, Hstar, ran, topCount, topFirst, sampledClean, tied>>
  /\ UNCHANGED rng
  /\ UNCHANGED notDraw

\* after the loop
RansacReturn ==
  /\ pc = "sampling"
  /\ ~MoreTrials(i)
  /\ ret' = IF maxInliers < 4 THEN Null ELSE bestH
  /\ pc' = "done"
  /\ UNCHANGED <<points1, points2, homographyMatrix, isCalculating, timer, i,
                 bestH, maxInliers, fits, Hstar, ran, topCount, topFirst,
                 sampledClean, tied>>
  /\ UNCHANGED drawVars
  /\ UNCHANGED notDraw

\* fits holds, from the start, what each sample of the call would give
InitRansac ==
  /\ MarkAtRest
  /\ points1 = RansacInput.p1
  /\ points2 = RansacInput.p2
  /\ Hstar = RansacInput.H
  /\ homographyMatrix = Null
  /\ isCalculating = FALSE
  /\ timer = Null
  /\ pc = "idle"
  /\ ret = Null
  /\ i = 0
  /\ bestH = Null
  /\ maxInliers = -1
  /\ fits = RansacFits(RansacInput.p1, RansacInput.p2, RansacInput.H)
  /\ ran = {}
  /\ topCount = -1
  /\ topFirst = Null
  /\ sampledClean = FALSE
  /\ tied = FALSE
  /\ InvAtRest
  /\ WarpAtRest
  /\ LibAtRest

NextRansac == RansacCall \/ Draw \/ Fit \/ RansacReturn

\* the call keeps running: a step is taken whenever one can be
SpecRansac == InitRansac /\ [][NextRansac]_vars /\ WF_vars(NextRansac)

\* ------------------------------------------------------------------------
\* The calls followed on the heap: which arrays each function allocates,
\* reads and writes
\* ------------------------------------------------------------------------
\* The heap is the sequence of the objects allocated; an address is a
\* position in it.  An object is an array of numbers ("numbers"), an array
\* of rows ("rows") or of points ("points"), whose elements are addresses,
\* or a point {x, y} ("point").
Numbers(v) == [kind |-> "numbers", el |-> v]

\* new Array(...), [...] or {...}: the object is placed at a fresh address
Alloc(hp, obj) == Append(hp, obj)

\* the rows of V and then the array of them, each at a fresh address; the
\* outer array is the last one
AllocMatrix(hp, V) ==
  LET base == Len(hp)
      m == Size(V)
  IN  hp \o [k \in 1..m |-> Numbers(V[k - 1])]
         \o <<[kind |-> "rows", el |-> Arr([r \in 0..(m - 1) |-> base + 1 + r])]>>

\* the point objects of P and then the array of them
AllocPoints(hp, P) ==
  LET base == Len(hp)
      m == Size(P)
  IN  hp \o [k \in 1..m |-> [kind |-> "point", el |-> P[k - 1]]]
         \o <<[kind |-> "points", el |-> Arr([r \in 0..(m - 1) |-> base + 1 + r])]>>

\* the matrix (point list) an array of rows (points) holds
Val(hp, a) == Arr([r \in DOMAIN hp[a].el |-> hp[hp[a].el[r]].el])

\* the objects an array refers to, and those reachable from roots
Children(hp, a) ==
  IF hp[a].kind \in {"rows", "points"} THEN {hp[a].el[r] : r \in DOMAIN hp[a].el}
  ELSE {}
Reach(hp, roots) == roots \cup UNION {Children(hp, a) : a \in roots}

\* what a call gives: an address, null, or an error
OutRef(a) == [kind |-> "ref", at |-> a]
OutNull == [kind |-> "null", at |-> 0]
OutThrown == [kind |-> "thrown", at |-> 0]

\* the value V returned in fresh arrays: a matrix, null or an error
Returned(hp, V) ==
  IF Raised(V) THEN [heap |-> hp, out |-> OutThrown]
  ELSE IF V = Null THEN [heap |-> hp, out |-> OutNull]
  ELSE [heap |-> AllocMatrix(hp, V), out |-> OutRef(Len(hp) + Size(V) + 1)]

\* a copy that keeps the rows of A; NoMutationNoAlias depends on each row
\* being copied
ShallowCopy(hp, a) == Alloc(hp, [kind |-> "rows", el |-> hp[a].el])

\* const B = A.map(row => [...row])
CopyRows(hp, a) == AllocMatrix(hp, Val(hp, a))

\* B[i][k] = 0; B[i][j] -= B[h][j] * f, for the rows i > h of the array at
\* b: the row objects are written in place and become the rows of E
WrittenBelow(hp, b, E, h) ==
  Arr([a \in DOMAIN hp |->
     IF \E r \in DOMAIN E : r > h /\ hp[b].el[r] = a
     THEN Numbers(E[CHOOSE r \in DOMAIN E : r > h /\ hp[b].el[r] = a])
     ELSE hp[a]])

\* the while loop of gaussianElimination on the array at b: the swap
\* exchanges two elements of the outer array, the elimination writes the
\* rows below the pivot
RECURSIVE GaussLoopAt(_, _, _, _, _, _)
GaussLoopAt(hp, b, h, k, m, n) ==
  IF ~(h < m /\ k < n) THEN hp
  ELSE LET B == Val(hp, b)
           i_max == PivotSearch(B, k, h + 1, h, m)
       IN  IF BelowEps(B[i_max][k])
           THEN GaussLoopAt(hp, b, h, k + 1, m, n)
           ELSE LET swapped == [hp EXCEPT ![b].el = SwapRows(@, h, i_max)]
                    E == EliminateBelow(Val(swapped, b), h, k, m, n)
                IN  GaussLoopAt(WrittenBelow(swapped, b, E, h), b, h + 1, k + 1, m, n)

gaussianEliminationAt(hp, a) ==
  IF Size(hp[a].el) = 0 THEN [heap |-> hp, out |-> OutThrown]
  ELSE LET copied == CopyRows(hp, a)
           b == Len(copied)
       IN  [heap |-> GaussLoopAt(copied, b, 0, 0, Size(hp[a].el), Size(Val(hp, a)[0])),
            out |-> OutRef(b)]

\* multiply: C is new Array(A_rows) of new Array(B_cols); A and B are read
multiplyAt(hp, a, b) == Returned(hp, multiply(Val(hp, a), Val(hp, b)))

\* transpose: B is new Array(cols) of new Array(rows); A is read
transposeAt(hp, a) == Returned(hp, transpose(Val(hp, a)))

\* invert3x3: m = A is read; invA is three new Array(3)
invert3x3At(hp, a) == Returned(hp, invert3x3(Val(hp, a)))

\* multiplyMatrixVector: result is new Array(rows); A and v are read
multiplyMatrixVectorAt(hp, a, v) ==
  LET out == multiplyMatrixVector(Val(hp, a), hp[v].el)
  IN  IF Raised(out) THEN [heap |-> hp, out |-> OutThrown]
      ELSE [heap |-> Alloc(hp, Numbers(Arr(out))), out |-> OutRef(Len(hp) + 1)]

\* solveHomographyFor4Points on the point arrays at a1 and a2: the rows of A
\* are new arrays, gaussianElimination works on its copy of A, h is a new
\* array and H three new rows, divided by h22 in place
solveHomographyFor4PointsAt(hp, a1, a2) ==
  LET built == AllocMatrix(hp, BuildA(Val(hp, a1), Val(hp, a2)))
      eliminated == gaussianEliminationAt(built, Len(built)).heap
      h == Alloc(eliminated,
                 Numbers(solveHomogeneous(BuildA(Val(hp, a1), Val(hp, a2)))))
  IN  Returned(h, Arr(solveHomographyFor4Points(Val(hp, a1), Val(hp, a2))))

\* randomIndices.map(idx => points[idx]): a new array of the same point
\* objects
SampleAt(hp, a, s) ==
  Alloc(hp, [kind |-> "points", el |-> Arr([k \in 0..3 |-> hp[a].el[s[k + 1]]])])

\* calculateHomography on the point arrays at a1 and a2; for more than 4
\* points, s is the sample of the trial whose candidate is returned
calculateHomographyAt(hp, a1, a2, s) ==
  IF Insufficient(hp[a1].el, hp[a2].el) THEN [heap |-> hp, out |-> OutNull]
  ELSE IF Size(hp[a1].el) = 4 THEN solveHomographyFor4PointsAt(hp, a1, a2)
  ELSE LET sampled1 == SampleAt(hp, a1, s)
           sampled2 == SampleAt(sampled1, a2, s)
       IN  solveHomographyFor4PointsAt(sampled2, Len(sampled1), Len(sampled2))

\* the variables the calls followed on the heap leave alone
notMem == <<calcVars, invVars, warpVars, toasts, mulVars, drawVars, gaussVars,
           markVars>>

\* the call has returned with out
Return(out) ==
  /\ mpc = "call"
  /\ heap' = out.heap
  /\ mres' = out.out
  /\ mpc' = "returned"
  /\ UNCHANGED <<heap0, margs, mfn>>
  /\ UNCHANGED notMem

GaussCall ==
  /\ mfn = "gaussianElimination"
  /\ Return(gaussianEliminationAt(heap, margs[1]))

MultiplyCall ==
  /\ mfn = "multiply"
  /\ Return(multiplyAt(heap, margs[1], margs[2]))

TransposeCall ==
  /\ mfn = "transpose"
  /\ Return(transposeAt(heap, margs[1]))

InvertCall ==
  /\ mfn = "invert3x3"
  /\ Return(invert3x3At(heap, margs[1]))

MultiplyVectorCall ==
  /\ mfn = "multiplyMatrixVector"
  /\ Return(multiplyMatrixVectorAt(heap, margs[1], margs[2]))

\* calculateHomography; after the trials it returns the candidate of one of
\* them, or null
CalculateCall ==
  /\ mfn = "calculateHomography"
  /\ \E s \in (IF Size(heap[margs[1]].el) > 4 THEN Samples(Size(heap[margs[1]].el))
                ELSE {<<0, 1, 2, 3>>}) :
       \/ Return(calculateHomographyAt(heap, margs[1], margs[2], s))
       \/ /\ Size(heap[margs[1]].el) > 4
          /\ Return([heap |-> calculateHomographyAt(heap, margs[1], margs[2], s).heap,
                     out |-> OutNull])

\* the matrices of at least one row and one column
ProperMatrices == UNION {Matrices(r, c) : r \in 1..MaxDim, c \in 1..MaxDim}

\* the call of fn on the heap hp with the arguments at args
MemStart(fn, hp, args) ==
  /\ mfn = fn
  /\ heap = hp
  /\ heap0 = hp
  /\ margs = args
  /\ mres = OutNull
  /\ mpc = "call"

\* one matrix argument; two matrix arguments, which may be the same array;
\* a matrix and a vector; two point lists
InitMem ==
  /\ MarkAtRest
  /\ \/ \E fn \in {"gaussianElimination", "transpose"}, A \in ProperMatrices :
          MemStart(fn, AllocMatrix(<< >>, A), <<Size(A) + 1>>)
     \/ \E A \in GroundTruths \cup ExtremeMatrices \cup {Affine2(Zero, Zero, Zero, Zero)} :
          MemStart("invert3x3", AllocMatrix(<< >>, A), <<4>>)
     \/ \E A \in ProperMatrices :
          MemStart("multiply", AllocMatrix(<< >>, A), <<Size(A) + 1, Size(A) + 1>>)
     \/ \E A \in ProperMatrices, B \in ProperMatrices :
          MemStart("multiply", AllocMatrix(AllocMatrix(<< >>, A), B),
                   <<Size(A) + 1, Size(A) + Size(B) + 2>>)
     \/ \E A \in ProperMatrices, v \in ShapedVectors :
          MemStart("multiplyMatrixVector", Alloc(AllocMatrix(<< >>, A), Numbers(v)),
                   <<Size(A) + 1, Size(A) + 2>>)
     \/ \E inp \in ProjectedInputs \cup LengthInputs :
          MemStart("calculateHomography",
                   AllocPoints(AllocPoints(<< >>, inp.p1), inp.p2),
                   <<Size(inp.p1) + 1, Size(inp.p1) + Size(inp.p2) + 2>>)
  /\ CalcAtRest
  /\ InvAtRest
  /\ WarpAtRest
  /\ MulAtRest
  /\ DrawAtRest
  /\ GaussAtRest

NextMem ==
  GaussCall \/ MultiplyCall \/ TransposeCall \/ InvertCall \/ MultiplyVectorCall
    \/ CalculateCall

SpecMem == InitMem /\ [][NextMem]_vars

\* ------------------------------------------------------------------------
\* Preview (drawTransformedImage of homovision-client.tsx)
\* ------------------------------------------------------------------------
\* a Uint8ClampedArray element set to the number v: rounded to the nearest
\* integer, a tie to the even one, and clamped to 0..255
ToUint8Clamped(v) ==
  LET n == RFloor(v)
      frac == RSub(v, R(n))
      r == IF RLt(frac, <<1, 2>>) THEN n
           ELSE IF RLt(<<1, 2>>, frac) THEN n + 1
           ELSE IF n % 2 = 0 THEN n ELSE n + 1
  IN  IF r < 0 THEN 0 ELSE IF r > 255 THEN 255 ELSE r

\* createImageData(w, h).data: transparent black
BlankData(w, h) == Arr([k \in 0..(4 * w * h - 1) |-> 0])

Min(a, b) == IF a < b THEN a ELSE b

\* an interpolation with the weights of x exchanged; IdentityWarpExact
\* depends on the weight of the floor neighbour being 1 - tx
InterpolatedSwapped(q11, q21, q12, q22, tx, ty) ==
  LET b1 == RAdd(RMul(R(q11), tx), RMul(R(q21), RSub(One, tx)))
      b2 == RAdd(RMul(R(q12), tx), RMul(R(q22), RSub(One, tx)))
  IN  ToUint8Clamped(RAdd(RMul(b1, RSub(One, ty)), RMul(b2, ty)))

\* b1 * (1 - ty) + b2 * ty for one channel, stored in transformedData
Interpolated(q11, q21, q12, q22, tx, ty) ==
  LET b1 == RAdd(RMul(R(q11), RSub(One, tx)), RMul(R(q21), tx))
      b2 == RAdd(RMul(R(q12), RSub(One, tx)), RMul(R(q22), tx))
  IN  ToUint8Clamped(RAdd(RMul(b1, RSub(One, ty)), RMul(b2, ty)))

\* a neighbour that is not kept on the image; SamplingInBounds depends on
\* Math.min
CeilOpen(side, floor) == floor + 1

\* x_ceil and y_ceil: Math.min(side - 1, floor + 1)
Ceil(side, floor) == Min(side - 1, floor + 1)

\* q11_index .. q22_index: the index of the red channel of the pixel (x, y)
\* of an image of the given width
QIndex(width, x, y) == (y * width + x) * 4

\* destIndex
DestIndex(destWidth, x, y) == (y * destWidth + x) * 4

\* the indices sourceData is read at for the neighbours of the pixel
\* (x_floor, y_floor)
SourceReads(src, x_floor, y_floor) ==
  {QIndex(src.w, x, y) + c : x \in {x_floor, Ceil(src.w, x_floor)},
                             y \in {y_floor, Ceil(src.h, y_floor)},
                             c \in 0..3}

\* one channel: a read outside sourceData gives undefined, the arithmetic
\* on it NaN, and NaN is stored as 0
Channel(src, x_floor, y_floor, x_ceil, y_ceil, tx, ty, c) ==
  IF SourceReads(src, x_floor, y_floor) \subseteq DOMAIN src.data
  THEN Interpolated(src.data[QIndex(src.w, x_floor, y_floor) + c],
                    src.data[QIndex(src.w, x_ceil, y_floor) + c],
                    src.data[QIndex(src.w, x_floor, y_ceil) + c],
                    src.data[QIndex(src.w, x_ceil, y_ceil) + c], tx, ty)
  ELSE 0

\* the bilinear interpolation at x_floor + tx, y_floor + ty: the 4 values
\* written at destIndex + c
Bilinear(src, x_floor, y_floor, tx, ty) ==
  [c \in 0..3 |->
     Channel(src, x_floor, y_floor, Ceil(src.w, x_floor), Ceil(src.h, y_floor),
             tx, ty, c)]

\* the test sx >= 0 && sx < width && sy >= 0 && sy < height
InSource(src, sx, sy) ==
  RLe(Zero, sx) /\ RLt(sx, R(src.w)) /\ RLe(Zero, sy) /\ RLt(sy, R(src.h))

\* the range test on (sx, sy) and what follows: Null when the pixel is left
\* alone
Sampled(src, sx, sy) ==
  IF InSource(src, sx, sy)
  THEN Bilinear(src, RFloor(sx), RFloor(sy),
                RSub(sx, R(RFloor(sx))), RSub(sy, R(RFloor(sy))))
  ELSE Null

\* sx = sourceVec[0] / sourceVec[2], sy = sourceVec[1] / sourceVec[2]: a
\* division by 0 gives infinities or NaN, which fail the range test
Divided(src, sourceVec) ==
  IF sourceVec[2] = Zero THEN Null
  ELSE Sampled(src, RDiv(sourceVec[0], sourceVec[2]), RDiv(sourceVec[1], sourceVec[2]))

\* sourceVec = multiplyMatrixVector(invMatrix, [x, y, 1])
SourceVec(invMatrix, x, y) ==
  multiplyMatrixVector(invMatrix, [j \in 0..2 |-> <<R(x), R(y), One>>[j + 1]])

\* the body of the loops over (x, y)
WarpPixel(invMatrix, src, x, y) == Divided(src, SourceVec(invMatrix, x, y))

\* transformedImageData.data after the two loops
Transformed(invMatrix, src, destWidth, destHeight) ==
  LET written == Arr([pixel \in 0..(destWidth * destHeight - 1) |->
                    WarpPixel(invMatrix, src, pixel % destWidth, pixel \div destWidth)])
  IN  Arr([k \in 0..(4 * destWidth * destHeight - 1) |->
         IF written[k \div 4] = Null THEN 0 ELSE written[k \div 4][k % 4]])

\* the pixels a stroke of lineWidth 1 with setLineDash([5, 5]) touches: the
\* columns (rows) within 1/2 of the line, on the stretches [10k, 10k + 5)
\* along it
OnDash(t) == t % 10 < 5
Within(t, at) == RLt(R(t), RAdd(at, <<1, 2>>)) /\ RLt(RSub(at, <<1, 2>>), R(t + 1))
VerticalLine(w, h, splitPixelX) ==
  {y * w + x : x \in {c \in 0..(w - 1) : Within(c, splitPixelX)},
               y \in {r \in 0..(h - 1) : OnDash(r)}}
HorizontalLine(w, h, splitPixelY) ==
  {y * w + x : x \in {c \in 0..(w - 1) : OnDash(c)},
               y \in {r \in 0..(h - 1) : Within(r, splitPixelY)}}

\* a step 1 that draws nothing; OnlyBaseWritten depends on the base image
\* being drawn before the inversion
BaseNotDrawn(cv, dest) == cv

\* ctx.drawImage(destImage, 0, 0, destWidth, destHeight) with an opaque
\* image of that size: every pixel is replaced
BaseDrawn(cv, dest) == [cv EXCEPT !.data = dest.data, !.stroked = {}]

\* save, rect(0, 0, splitPixelX, splitPixelY), clip, putImageData, restore:
\* putImageData copies the whole buffer, the clipping region does not apply
\* to it
Overlaid(cv, transformedData, splitPixelX, splitPixelY) ==
  [cv EXCEPT !.data = transformedData, !.stroked = {}]

\* the two strokes (the strokeStyle given is no colour, so the default
\* black is used)
LinesDrawn(cv, splitPixelX, splitPixelY) ==
  [cv EXCEPT !.stroked = VerticalLine(cv.w, cv.h, splitPixelX)
                           \cup HorizontalLine(cv.w, cv.h, splitPixelY)]

\* steps 3 and 4 of onImagesLoaded
Composited(base, transformedData, splitPixelX, splitPixelY) ==
  LinesDrawn(Overlaid(base, transformedData, splitPixelX, splitPixelY),
             splitPixelX, splitPixelY)

\* onImagesLoaded from the test of invMatrix on, base being the canvas with
\* the base image drawn
AfterInversion(base, d, invMatrix) ==
  IF invMatrix = Null
  THEN [canvas |-> base,
        toast |-> {"Matrix is not invertible."},
        wrote |-> {"base"}]
  ELSE [canvas |-> Composited(base,
                     Transformed(invMatrix, d.source, base.w, base.h),
                     RMul(RDiv(R(d.splitX), R(100)), R(base.w)),
                     RMul(RDiv(R(d.splitY), R(100)), R(base.h))),
        toast |-> {},
        wrote |-> {"base", "warp", "lines"}]

\* onImagesLoaded of the call d once both images are loaded: the canvas,
\* the descriptions of the toasts shown, and what was written
OnImagesLoaded(cv, d) ==
  AfterInversion(BaseDrawn(cv, d.dest), d, invert3x3(d.matrix))

\* canvas.width = destWidth; canvas.height = destHeight: the canvas takes the
\* size of image 2 and is cleared to transparent black
Cleared(dest) ==
  [w |-> dest.w, h |-> dest.h, data |-> BlankData(dest.w, dest.h), stroked |-> {}]

\* bound: the calls of drawTransformedImage whose images load at once
MaxDraws == 1

\* drawTransformedImage(matrix) up to its return: nothing without both
\* images; else the canvas takes the size of image 2, which clears it, and
\* the two images start loading
DrawTransformedImage(matrix) ==
  IF image1 = Null \/ image2 = Null
  THEN UNCHANGED <<canvas, draws>>
  ELSE /\ canvas' = Cleared(image2)
       /\ draws' = Append(draws, [matrix |-> matrix, source |-> image1, dest |-> image2,
                                  splitX |-> splitX', splitY |-> splitY',
                                  sourceLoaded |-> FALSE, destLoaded |-> FALSE,
                                  first |-> "none", bodies |-> 0])

\* the effect of lines 56-61, run after a render that changed one of its
\* dependencies
RedrawEffect ==
  IF homographyMatrix # Null /\ image1 # Null /\ image2 # Null
  THEN DrawTransformedImage(homographyMatrix)
  ELSE UNCHANGED <<canvas, draws>>

\* the effect after the render that stored the matrix
Effect ==
  /\ effectPending
  /\ effectPending' = FALSE
  /\ UNCHANGED <<splitX, splitY>>
  /\ RedrawEffect
  /\ UNCHANGED <<image1, image2, toasts, last>>
  /\ UNCHANGED notWarp

\* the values the sliders are moved to
Splits == {0, 50, 100}

\* onValueChange of a slider: setSplitX(val) or setSplitY(val), the render
\* and its effect, with fewer than bound calls still loading
MoveSliderWithin(bound) ==
  /\ ~effectPending
  /\ Len(draws) < bound
  /\ \E val \in Splits :
       \/ val # splitX /\ splitX' = val /\ UNCHANGED splitY
       \/ val # splitY /\ splitY' = val /\ UNCHANGED splitX
  /\ RedrawEffect
  /\ UNCHANGED <<image1, image2, effectPending, toasts, last>>
  /\ UNCHANGED notWarp

MoveSlider == MoveSliderWithin(MaxDraws)

\* a guard that never returns; WarpDeterministic depends on the body waiting
\* for both flags
ReturnsNever(d) == FALSE

\* if (!sourceLoaded || !destLoaded) return;
Returns(d) == ~d.sourceLoaded \/ ~d.destLoaded

\* the calls still loading after an onload callback of the call at position
\* k, which is now d: a call both of whose callbacks have fired has nothing
\* left to run
Settled(k, d) ==
  IF d.sourceLoaded /\ d.destLoaded
  THEN SubSeq(draws, 1, k - 1) \o SubSeq(draws, k + 1, Len(draws))
  ELSE [draws EXCEPT ![k] = d]

\* the body of onImagesLoaded of the call at position k has run to its end
\* with out
Completed(k, d, out) ==
  /\ canvas' = out.canvas
  /\ toasts' = toasts \cup out.toast
  /\ last' = [matrix |-> d.matrix, splitX |-> d.splitX, splitY |-> d.splitY,
               wrote |-> out.wrote, first |-> d.first, bodies |-> d.bodies + 1,
               both |-> d.sourceLoaded /\ d.destLoaded]
  /\ draws' = Settled(k, [d EXCEPT !.bodies = @ + 1])

\* an onload callback of the call at position k has set its flag and calls
\* onImagesLoaded, which returns at once unless both flags are set
Loaded(k, d) ==
  IF Returns(d)
  THEN /\ draws' = Settled(k, d)
       /\ UNCHANGED <<canvas, toasts, last>>
  ELSE Completed(k, d, OnImagesLoaded(canvas, d))

\* the call d with the flag of the callback named which set
Flagged(d, which) ==
  [d EXCEPT !.sourceLoaded = (@ \/ which = "source"),
            !.destLoaded = (@ \/ which = "dest"),
            !.first = IF @ = "none" THEN which ELSE @]

\* sourceImage.onload
SourceLoaded ==
  /\ \E k \in 1..Len(draws) :
       /\ ~draws[k].sourceLoaded
       /\ Loaded(k, Flagged(draws[k], "source"))
  /\ UNCHANGED <<image1, image2, splitX, splitY, effectPending>>
  /\ UNCHANGED notWarp

\* destImage.onload
DestLoaded ==
  /\ \E k \in 1..Len(draws) :
       /\ ~draws[k].destLoaded
       /\ Loaded(k, Flagged(draws[k], "dest"))
  /\ UNCHANGED <<image1, image2, splitX, splitY, effectPending>>
  /\ UNCHANGED notWarp

\* bound: the sides of the images
MaxSide == 2

\* an opaque w x h raster; its colours depend on the position and on seed
Raster(w, h, seed) ==
  [w |-> w, h |-> h,
   data |-> Arr([k \in 0..(4 * w * h - 1) |->
              IF k % 4 = 3 THEN 255
              ELSE (seed + 40 * ((k \div 4) % w) + 90 * ((k \div 4) \div w)
                      + 20 * (k % 4)) % 256])]

\* image 1 and image 2: images of the same size, of every size; an image 1
\* of one pixel with the largest image 2; and image 1 not loaded
ImagePairs ==
  LET Sides == 1..MaxSide
  IN  {[source |-> Raster(w, h, 10), dest |-> Raster(w, h, 135)] : w \in Sides, h \in Sides}
        \cup {[source |-> Raster(1, 1, 10), dest |-> Raster(MaxSide, MaxSide, 135)],
               [source |-> Null, dest |-> Raster(1, 1, 135)]}

\* the matrices stored: identity, shift by 1, magnification by 2, reduction
\* to 1/2, a projective one whose inverse divides by 0 on the column x = 1,
\* and two that are not invertible (the second is what the solver returns
\* for points on a line)
WarpMatrices ==
  { Identity3,
    MkMat(<<<<1, 0, 1>>, <<0, 1, 0>>, <<0, 0, 1>>>>),
    MkMat(<<<<2, 0, 0>>, <<0, 2, 0>>, <<0, 0, 1>>>>),
    Affine2(<<1, 2>>, Zero, Zero, <<1, 2>>),
    MkMat(<<<<1, 0, 0>>, <<0, 1, 0>>, <<1, 0, 1>>>>),
    MkMat(<<<<0, 0, 0>>, <<0, 0, 0>>, <<0, 0, 0>>>>),
    MkMat(<<<<1, 0, 0>>, <<0, 0, 0>>, <<0, 0, 1>>>>) }

\* the matrix has just been stored and rendered, the effect is due
InitWarp ==
  /\ MarkAtRest
  /\ \E im \in ImagePairs : image1 = im.source /\ image2 = im.dest
  /\ \E H \in WarpMatrices : CalcStart([p1 |-> Null, p2 |-> Null, H |-> Null], H)
  /\ splitX = 50
  /\ splitY = 50
  /\ canvas = [w |-> 0, h |-> 0, data |-> << >>, stroked |-> {}]
  /\ draws = << >>
  /\ effectPending = TRUE
  /\ toasts = {}
  /\ last = Null
  /\ InvAtRest
  /\ LibAtRest

NextWarp == Effect \/ MoveSlider \/ SourceLoaded \/ DestLoaded

SpecWarp == InitWarp /\ [][NextWarp]_vars

\* ------------------------------------------------------------------------
\* The preview with a slider moved while the images of earlier calls of
\* drawTransformedImage are still loading
\* ------------------------------------------------------------------------
\* bound: the calls of drawTransformedImage that load at once when a slider
\* is moved during the loading
MaxOverlap == 2

\* a slider is moved while earlier calls are loading
MoveSliderLoading == MoveSliderWithin(MaxOverlap)

\* images of 2 x 2 pixels, the identity or the shift by 1 stored and
\* rendered, the effect due
InitRedraw ==
  /\ MarkAtRest
  /\ image1 = Raster(2, 2, 10)
  /\ image2 = Raster(2, 2, 135)
  /\ \E H \in {Identity3, MkMat(<<<<1, 0, 1>>, <<0, 1, 0>>, <<0, 0, 1>>>>)} :
       CalcStart([p1 |-> Null, p2 |-> Null, H |-> Null], H)
  /\ splitX = 50
  /\ splitY = 50
  /\ canvas = [w |-> 0, h |-> 0, data |-> << >>, stroked |-> {}]
  /\ draws = << >>
  /\ effectPending = TRUE
  /\ toasts = {}
  /\ last = Null
  /\ InvAtRest
  /\ LibAtRest

NextRedraw == Effect \/ MoveSliderLoading \/ SourceLoaded \/ DestLoaded

SpecRedraw == InitRedraw /\ [][NextRedraw]_vars

\* ------------------------------------------------------------------------
\* resetAll and a calculation scheduled by handleCalculateHomography
\* ------------------------------------------------------------------------
\* resetAll, the render that follows and its effect (which draws nothing,
\* the matrix being null): the images, the lists, the matrix and the splits
\* are reset and the canvas is cleared with clearRect; isCalculating and the
\* timer of handleCalculateHomography are left as they are.  The button is
\* handled between callbacks, so not while the trials run.
ResetAll ==
  /\ pc # "ransac"
  /\ image1' = Null
  /\ image2' = Null
  /\ points1' = << >>
  /\ points2' = << >>
  /\ homographyMatrix' = Null
  /\ splitX' = 50
  /\ splitY' = 50
  /\ canvas' = [canvas EXCEPT !.data = BlankData(canvas.w, canvas.h), !.stroked = {}]
  /\ toasts' = toasts \cup {"Application state has been cleared."}
  /\ effectPending' = FALSE
  /\ UNCHANGED <<isCalculating, timer, pc, ret, i, bestH, maxInliers, fits, Hstar,
                 ran, topCount, topFirst, sampledClean, tied>>
  /\ nextImageToMark' = 1
  /\ clicked' = Null
  /\ UNCHANGED isAiDetecting
  /\ UNCHANGED <<draws, last>>
  /\ UNCHANGED <<invVars, libVars>>

\* the lists the user has marked: 4 correspondences, and lists of every
\* length
ResetInputs == ProjectedInputs \cup LengthInputs

InitReset ==
  /\ MarkAtRest
  /\ \E inp \in ResetInputs : CalcStart(inp, Null)
  /\ InvAtRest
  /\ WarpAtRest
  /\ LibAtRest

NextReset == HandleCalculate \/ TimerFire \/ Trial \/ Finish \/ ResetAll

SpecReset == InitReset /\ [][NextReset]_vars

\* ------------------------------------------------------------------------
\* The marking of the points: handlePointAdd, clearLastPointPair,
\* handleAutoDetect, resetAll, after handleImageUpload
\* ------------------------------------------------------------------------
\* bound of the points marked by clicking on one image, and of the points
\* the detection returns for one image
MaxMarked == 3

MaxDetected == 2

\* where the user can click
ClickPoints == {Pt(One, One)}

\* n points as the detection returns them: arrays [x, y]
Detected(n) == Arr([k \in 0..(n - 1) |-> <<R(k), R(k + 1)>>])

\* the results of autoDetectPoints: any number of points for each image
AiResults ==
  {[image1Points |-> Detected(n1), image2Points |-> Detected(n2)] :
     n1 \in 0..MaxDetected, n2 \in 0..MaxDetected}

\* result.imageNPoints.map(p => ({ x: p[0], y: p[1] }))
NewPoints(ps) == Arr([k \in DOMAIN ps |-> Pt(ps[k][1], ps[k][2])])

\* [...list, point]
Spread(list, point) ==
  Arr([k \in 0..Size(list) |-> IF k < Size(list) THEN list[k] ELSE point])

\* list.slice(0, -1)
SliceLast(list) == Prefix(list, Size(list) - 1)

\* the state of the calculation and of the preview, which the marking
\* leaves alone
notMark == <<homographyMatrix, isCalculating, timer, pc, ret, i, bestH,
             maxInliers, fits, Hstar, ran, topCount, topFirst, sampledClean,
             tied, splitX, splitY, canvas, draws, effectPending, last, invVars,
             libVars>>

\* handleImageUpload, the image decoded: image imageNumber is set (no
\* matrix is stored, so the effect draws nothing)
HandleImageUpload(imageNumber) ==
  /\ homographyMatrix = Null
  /\ IF imageNumber = 1
     THEN image1 = Null /\ image1' = Raster(1, 1, 10) /\ UNCHANGED image2
     ELSE image2 = Null /\ image2' = Raster(1, 1, 135) /\ UNCHANGED image1
  /\ clicked' = Null
  /\ UNCHANGED <<points1, points2, toasts, nextImageToMark, isAiDetecting>>
  /\ UNCHANGED notMark

\* handlePointAdd(point, imageNumber), called by the panel of an image that
\* is shown
HandlePointAdd(point, imageNumber) ==
  /\ (IF imageNumber = 1 THEN image1 ELSE image2) # Null
  /\ IF imageNumber = 1 /\ nextImageToMark = 1
     THEN /\ Size(points1) < MaxMarked
          /\ points1' = Spread(points1, point)
          /\ nextImageToMark' = 2
          /\ toasts' = toasts \cup {"Point added to Image 1"}
          /\ UNCHANGED points2
     ELSE IF imageNumber = 2 /\ nextImageToMark = 2
     THEN /\ Size(points2) < MaxMarked
          /\ points2' = Spread(points2, point)
          /\ nextImageToMark' = 1
          /\ toasts' = toasts \cup {"Point added to Image 2"}
          /\ UNCHANGED points1
     ELSE /\ toasts' = toasts \cup {"Incorrect Image Clicked"}
          /\ UNCHANGED <<points1, points2, nextImageToMark>>
  /\ clicked' = [image |-> imageNumber, next |-> nextImageToMark,
                 added |-> points1' # points1 \/ points2' # points2]
  /\ UNCHANGED <<image1, image2, isAiDetecting>>
  /\ UNCHANGED notMark

\* clearLastPointPair
ClearLastPointPair ==
  /\ Size(points1) # 0
  /\ IF nextImageToMark = 1
     THEN /\ points1' = SliceLast(points1)
          /\ points2' = SliceLast(points2)
          /\ UNCHANGED nextImageToMark
     ELSE /\ points1' = SliceLast(points1)
          /\ nextImageToMark' = 1
          /\ UNCHANGED points2
  /\ toasts' = toasts \cup {"Last point pair removed"}
  /\ clicked' = Null
  /\ UNCHANGED <<image1, image2, isAiDetecting>>
  /\ UNCHANGED notMark

\* handleAutoDetect up to its await; the button is disabled while a call
\* awaits and without both files
HandleAutoDetect ==
  /\ ~isAiDetecting
  /\ image1 # Null /\ image2 # Null
  /\ isAiDetecting' = TRUE
  /\ clicked' = Null
  /\ UNCHANGED <<image1, image2, points1, points2, toasts, nextImageToMark>>
  /\ UNCHANGED notMark

\* handleAutoDetect after its await, with the result of autoDetectPoints
AutoDetected(result) ==
  /\ isAiDetecting
  /\ points1' = NewPoints(result.image1Points)
  /\ points2' = NewPoints(result.image2Points)
  /\ nextImageToMark' = 1
  /\ toasts' = toasts \cup {"AI Detection Successful"}
  /\ isAiDetecting' = FALSE
  /\ clicked' = Null
  /\ UNCHANGED <<image1, image2>>
  /\ UNCHANGED notMark

\* handleAutoDetect after its await, the detection having failed
AutoDetectFailed ==
  /\ isAiDetecting
  /\ toasts' = toasts \cup {"Failed to detect points automatically."}
  /\ isAiDetecting' = FALSE
  /\ clicked' = Null
  /\ UNCHANGED <<image1, image2, points1, points2, nextImageToMark>>
  /\ UNCHANGED notMark

\* the component as it is constructed
InitPoints ==
  /\ MarkAtRest
  /\ CalcAtRest
  /\ InvAtRest
  /\ WarpAtRest
  /\ LibAtRest

NextPoints ==
  \/ \E imageNumber \in {1, 2} : HandleImageUpload(imageNumber)
  \/ \E point \in ClickPoints, imageNumber \in {1, 2} :
       HandlePointAdd(point, imageNumber)
  \/ ClearLastPointPair
  \/ HandleAutoDetect
  \/ \E result \in AiResults : AutoDetected(result)
  \/ AutoDetectFailed
  \/ ResetAll

SpecPoints == InitPoints /\ [][NextPoints]_vars

\* ------------------------------------------------------------------------
\* Properties
\* ------------------------------------------------------------------------
\* |a - b| <= 1e-6, decided by dividing the denominator by the numerator
Near(a, b) ==
  LET v == RSub(a, b)
      n == Abs(v[1])
  IN  \/ n = 0
      \/ (v[2] \div n) > 10^6
      \/ (v[2] \div n) = 10^6 /\ (v[2] % n) = 0

\* two 3 x 3 matrices equal entry by entry within 1e-6
MatNear(A, B) ==
  /\ A # Null
  /\ B # Null
  /\ \A r, c \in 0..2 : Near(A[r][c], B[r][c])

\* a call on 4 correspondences has returned
Solved4 == pc = "done" /\ Size(points1) = 4 /\ Size(points2) = 4

\* the correspondences are 4 source points, no three collinear, and their
\* projections through a non-singular Hstar with Hstar[2][2] = 1
RecoveryCase ==
  /\ Solved4
  /\ Hstar # Null
  /\ Hstar[2][2] = One
  /\ Det3(Hstar) # Zero
  /\ \A k \in 0..3 : Consistent(Hstar, points1, points2, k)
  /\ NoThreeCollinear(points1)

AllCollinear(pts) ==
  \A a, b, c \in DOMAIN pts : Collinear(pts[a], pts[b], pts[c])

\* C3: 4 collinear source points yield null (the program has no other way to
\* flag a matrix), so that no matrix is stored for them and no success is
\* reported
CollinearYieldsNull ==
  (Solved4 /\ AllCollinear(points1))
    => /\ ret = Null
       /\ homographyMatrix = Null
       /\ "Homography matrix calculated." \notin toasts

\* the destination of correspondence k is more than 20 px away from the
\* projection of its source through H
PerturbedBeyond20(H, p1, p2, k) ==
  /\ H # Null
  /\ ~BelowEps(Projected(H, p1[k])[2])
  /\ LET q == Dehomogenize(Projected(H, p1[k]))
         dx == RSub(p2[k].x, q.x)
         dy == RSub(p2[k].y, q.y)
     IN  RLt(R(20 * 20), RAdd(RMul(dx, dx), RMul(dy, dy)))

\* calculateHomography has returned on 15 correspondences that agree with
\* Hstar plus 5 perturbed by more than 20 px
OutlierCase ==
  /\ pc = "done"
  /\ Hstar # Null
  /\ Size(points1) = 20
  /\ Size(points2) = 20
  /\ Cardinality({k \in 0..19 : Consistent(Hstar, points1, points2, k)}) = 15
  /\ Cardinality({k \in 0..19 : PerturbedBeyond20(Hstar, points1, points2, k)}) = 5

\* the result matches Hstar and has at least 15 inliers over the full set
Rejected5 ==
  /\ MatNear(ret, Hstar)
  /\ CountInliers(ret, points1, points2) >= 15

AfterTrials ==
  /\ pc = "done"
  /\ Size(points1) > 4
  /\ Size(points1) = Size(points2)

\* C5: after all trials the result is null exactly when the highest inlier
\* count seen is below 4, and otherwise it is the candidate of the earliest
\* trial that reached the highest count
SelectionRule ==
  AfterTrials => /\ (ret = Null) <=> (topCount < 4)
                 /\ (topCount >= 4) => (ret = topFirst)

SelectionRuleWitness ==
  /\ AfterTrials
  /\ topCount >= 4
  /\ tied
  /\ ret = topFirst

\* C6: with fewer than 4 correspondences or lists of different lengths the
\* handler schedules nothing and calculateHomography returns null without
\* running the solver or the trials, so both only ever run on lists of equal
\* length of at least 4
SizesRespected ==
  /\ (Size(points1) < 4 \/ Size(points1) # Size(points2))
       => /\ timer = Null
          /\ pc \notin {"scheduled", "ransac"}
          /\ (pc = "done") => (ret = Null)
          /\ ran = {}
  /\ \A r \in ran : r.n1 = r.n2 /\ r.n1 >= 4

SizesRespectedWitness ==
  /\ Size(points1) > 4
  /\ Size(points2) = 4
  /\ pc = "done"
  /\ ret = Null
  /\ ran = {}

\* |v| < 1e-9, that is |n| * 10^9 < d for v = n / d
AbsBelow1e9th(v) == Abs(v[1]) <= (v[2] - 1) \div 10^9

\* |v| <= 1e9, that is |n| <= 10^9 * d for v = n / d
AbsAtMost1e9(v) ==
  \/ Abs(v[1]) \div v[2] < 10^9
  \/ Abs(v[1]) \div v[2] = 10^9 /\ Abs(v[1]) % v[2] = 0

InvertedTwice == ipc = "again" /\ invA # Null

\* the second call succeeded and gave A back within 1e-6
CameBack == MatNear(invInv, argA)

NotInvertibleDrawn == last # Null /\ invert3x3(last.matrix) = Null

\* C9 as stated: it reports 'matrix not invertible' and writes no pixel: no
\* base image, no warped pixel, no guide line
NothingWritten ==
  NotInvertibleDrawn
    => ("Matrix is not invertible." \in toasts /\ last.wrote = {})

\* C9 amended: it reports 'matrix not invertible' and writes no warped pixel
\* and no guide line; the base image is drawn before the inversion is tried
OnlyBaseWritten ==
  NotInvertibleDrawn
    => /\ "Matrix is not invertible." \in toasts
       /\ last.wrote = {"base"}
       /\ (draws = << >>) => (canvas.data = image2.data /\ canvas.stroked = {})

OnlyBaseWrittenWitness ==
  /\ NotInvertibleDrawn
  /\ draws = << >>
  /\ canvas.w = 2
  /\ canvas.h = 2
  /\ canvas.data = image2.data
  /\ last.matrix[0][0] # Zero

\* a call on an invertible matrix with splitX = 0 or splitY = 0 has run to
\* its end and no later call has touched the canvas
SplitZeroDrawn ==
  /\ last # Null
  /\ invert3x3(last.matrix) # Null
  /\ (last.splitX = 0 \/ last.splitY = 0)
  /\ draws = << >>

\* C10: with splitX = 0 or splitY = 0 the canvas after the call is, pixel
\* for pixel, the base image
SplitZeroShowsBase ==
  SplitZeroDrawn => (canvas.data = image2.data /\ canvas.stroked = {})

\* C10, the colours alone (the guide lines left aside)
SplitZeroShowsBaseColours == SplitZeroDrawn => (canvas.data = image2.data)

\* a call on an invertible matrix has run to its end and no later call has
\* touched the canvas
WarpDrawn ==
  /\ last # Null
  /\ "warp" \in last.wrote
  /\ draws = << >>

\* the inverse-mapped source coordinate of destination pixel p of the last
\* call falls outside [0, w1) x [0, h1)
OutOfBounds(p) ==
  WarpPixel(invert3x3(last.matrix), image1, p % canvas.w, p \div canvas.w) = Null

\* destination pixel p is outside the split region of the last call
OutsideSplit(p) ==
  ~ /\ RLt(R(p % canvas.w), RMul(RDiv(R(last.splitX), R(100)), R(canvas.w)))
    /\ RLt(R(p \div canvas.w), RMul(RDiv(R(last.splitY), R(100)), R(canvas.h)))

\* the 4 channels of pixel p of the canvas are those of the base image
KeepsBase(p) == \A c \in 0..3 : canvas.data[4 * p + c] = image2.data[4 * p + c]

\* C11: every destination pixel whose source coordinate is out of bounds,
\* and every pixel outside the split region, keeps the value of the base
\* image in the final raster
PassThrough ==
  WarpDrawn
    => \A p \in 0..(canvas.w * canvas.h - 1) :
         (OutOfBounds(p) \/ OutsideSplit(p)) => KeepsBase(p)

\* the identity homography has been warped from a 2 x 2 source into a 2 x 2
\* destination with splitX = splitY = 100
IdentityWarpCase ==
  /\ WarpDrawn
  /\ last.matrix = Identity3
  /\ last.splitX = 100
  /\ last.splitY = 100
  /\ image1.w = 2 /\ image1.h = 2
  /\ image2.w = 2 /\ image2.h = 2

\* C12 as stated: the 4 pixels of the raster equal the source pixels in all
\* 4 channels
IdentityWarpShowsSource ==
  IdentityWarpCase => (canvas.data = image1.data /\ canvas.stroked = {})

\* C12 amended: the 4 pixels the warp writes equal the source pixels in all
\* 4 channels; the guide lines at x = 2 and y = 2 are then stroked over the
\* last column and the last row
IdentityWarpExact ==
  IdentityWarpCase => (canvas.data = image1.data /\ canvas.stroked = {1, 2, 3})

IdentityWarpExactWitness ==
  /\ IdentityWarpCase
  /\ canvas.data = image1.data
  /\ canvas.data # image2.data
  /\ 3 \in canvas.stroked

\* the canvas a call of drawTransformedImage leaves when it runs alone on
\* the matrix and the splits of the last call, the source image and dest
ResultOn(dest) ==
  OnImagesLoaded(Cleared(dest),
                 [matrix |-> last.matrix, source |-> image1, dest |-> dest,
                  splitX |-> last.splitX, splitY |-> last.splitY]).canvas

\* the body of onImagesLoaded has run once for the last call, and both
\* callbacks had fired
RanOnceAfterBoth == (last # Null) => (last.bodies = 1 /\ last.both)

\* the last call has finished and no other is loading
Finished == last # Null /\ draws = << >>

ResetDone == "Application state has been cleared." \in toasts

\* C14: after resetAll the stored homography is null and stays null (until
\* the next request), also when a calculation was already scheduled on the
\* timer
NullAfterReset == ResetDone => (homographyMatrix = Null)

\* a call of multiply or multiplyMatrixVector on a matrix A that has a column
\* count (at least one row) has returned or thrown
Multiplied == opPc = "multiplied" /\ Size(opA) > 0
Applied == opPc = "applied" /\ Size(opA) > 0

\* the result is a full array of numbers: rows x cols for multiply, rows for
\* multiplyMatrixVector
FullProduct ==
  /\ ~Raised(opOut)
  /\ DOMAIN opOut = DOMAIN opA
  /\ opPc = "multiplied"
       => \A r \in DOMAIN opOut :
            /\ DOMAIN opOut[r] = DOMAIN opB[0]
            /\ \A c \in DOMAIN opOut[r] : opOut[r][c] = MulSum(opA, opB, r, c, 0)
  /\ opPc = "applied"
       => \A r \in DOMAIN opOut : opOut[r] = DotFrom(opA[r], opB, 0)

\* C15 as stated: both calls raise when the column count of A differs from
\* the row count of B (the length of v), returning nothing, and neither
\* raises when they agree
MismatchRaisesOnly ==
  (Multiplied \/ Applied)
    => IF Size(opA[0]) # Size(opB) THEN Raised(opOut) ELSE FullProduct

\* C15 amended: as stated, except that multiply also raises (a TypeError)
\* when the dimensions agree and B has no row, A having rows of no element;
\* and both raise a TypeError when A has no row
MismatchRaises ==
  /\ (Multiplied \/ Applied)
       => IF Size(opA[0]) # Size(opB) THEN Raised(opOut)
          ELSE IF opPc = "multiplied" /\ Size(opB) = 0 THEN opOut = TypeErrorThrown
          ELSE FullProduct
  /\ (opPc \in {"multiplied", "applied"} /\ Size(opA) = 0)
       => opOut = TypeErrorThrown

MismatchRaisesWitness ==
  /\ Multiplied
  /\ Size(opA[0]) = 1
  /\ Size(opB) = 2
  /\ Size(opB[0]) = 2
  /\ opOut = Thrown

\* C16: each of gaussianElimination, multiply, transpose, invert3x3,
\* multiplyMatrixVector and calculateHomography leaves every array and point
\* of its arguments as it was, and no array of the value it returns is an
\* array of its arguments
NoMutationNoAlias ==
  (mpc = "returned")
    => /\ \A a \in DOMAIN heap0 : heap[a] = heap0[a]
       /\ (mres.kind = "ref")
            => (Reach(heap, {mres.at}) \cap Reach(heap0, {margs[k] : k \in DOMAIN margs}) = {})

NoMutationNoAliasWitness ==
  /\ mpc = "returned"
  /\ mfn = "gaussianElimination"
  /\ mres.kind = "ref"
  /\ Val(heap, mres.at) # Val(heap0, margs[1])
  /\ Val(heap, margs[1]) = Val(heap0, margs[1])

\* the arrays a call leaves on the heap hold what the function computes
\* from the values of its arguments
HeapAgrees ==
  (mpc = "returned" /\ mres.kind = "ref")
    => /\ (mfn = "gaussianElimination")
            => (Val(heap, mres.at) = gaussianElimination(Val(heap0, margs[1])))
       /\ (mfn = "multiply")
            => (Val(heap, mres.at) = multiply(Val(heap0, margs[1]), Val(heap0, margs[2])))
       /\ (mfn = "transpose")
            => (Val(heap, mres.at) = transpose(Val(heap0, margs[1])))
       /\ (mfn = "invert3x3")
            => (Val(heap, mres.at) = invert3x3(Val(heap0, margs[1])))

SamplingSound ==
  /\ \A a, b \in 1..Len(indices) : a # b => indices[a] # indices[b]
  /\ \A a \in 1..Len(indices) : indices[a] >= 0 /\ indices[a] < Size(points1)
  /\ (pc = "fitting")
       => /\ Len(indices) = 4
          /\ \A k \in 0..3 :
               /\ SampleOf(points1, indices)[k] = points1[indices[k + 1]]
               /\ SampleOf(points2, indices)[k] = points2[indices[k + 1]]

SamplingSoundWitness ==
  /\ pc = "fitting"
  /\ i > 0
  /\ indices = <<4, 2, 0, 3>>

\* the column of the first entry of the row that is at least 1e-9 in
\* magnitude, the length of the row when it has none
RECURSIVE Lead(_, _)
Lead(row, j) ==
  IF j >= Size(row) \/ ~BelowEps(row[j]) THEN j ELSE Lead(row, j + 1)

RowEchelon(B) ==
  \A r \in DOMAIN B :
    r > 0 => \/ Lead(B[r], 0) = Size(B[r])
             \/ Lead(B[r], 0) > Lead(B[r - 1], 0)

\* the last turn of the while loop chose a row of largest magnitude in
\* column k among the rows from h on
ChoseLargest ==
  /\ gprev.i_max >= gprev.h
  /\ \A r \in DOMAIN gprev.B :
       r >= gprev.h =>
         RLe(RAbs(gprev.B[r][gprev.k]), RAbs(gprev.B[gprev.i_max][gprev.k]))

\* C18: at each pivot column k the row chosen has the largest magnitude in
\* column k among the rows from h on; if it is at least 1e-9 the row is at
\* position h afterwards, all entries below it in column k are 0 and h and
\* k have advanced; otherwise only k has advanced and no row has changed;
\* the matrix returned is in row-echelon form
Pivoting ==
  /\ (gprev # Null) =>
       /\ ChoseLargest
       /\ IF ~BelowEps(gprev.B[gprev.i_max][gprev.k])
          THEN /\ gB[gprev.h] = gprev.B[gprev.i_max]
               /\ \A r \in DOMAIN gB : r > gprev.h => gB[r][gprev.k] = Zero
               /\ gh = gprev.h + 1
               /\ gk = gprev.k + 1
          ELSE /\ gB = gprev.B
               /\ gh = gprev.h
               /\ gk = gprev.k + 1
       /\ (RAbs(gprev.B[gprev.i_max][gprev.k]) = Eps) => (gh = gprev.h + 1)
       /\ (RAbs(gprev.B[gprev.i_max][gprev.k]) = Tiny) => (gh = gprev.h)
  /\ (gpc = "returned") => RowEchelon(gB) /\ gB = gaussianElimination(gA)

\* a 3 x 3 matrix reduced with a column skipped and a row swapped
PivotingWitness ==
  /\ gpc = "returned"
  /\ Size(gA) = 3 /\ Size(gA[0]) = 3
  /\ gh = 2 /\ gk = 3
  /\ gA[0][0] = Zero /\ gA[1][0] = One
  /\ gB # gA

\* the points of the list are not 4 points in general position
Degenerate(pts) ==
  \E a, b, c \in DOMAIN pts :
    a < b /\ b < c /\ Collinear(pts[a], pts[b], pts[c])

\* a 3 x 3 array of numbers
Is3x3(H) ==
  /\ DOMAIN H = 0..2
  /\ \A r \in 0..2 : DOMAIN H[r] = 0..2 /\ \A c \in 0..2 : H[r][c][2] > 0

\* C19: on 4 correspondences, degenerate ones included, calculateHomography
\* returns a 3 x 3 matrix, not null, and raises nothing: solveHomogeneous
\* does not return null
SolverTotal ==
  /\ Solved4 => ret # Null /\ ~Raised(ret) /\ Is3x3(ret)
  /\ (Size(points1) = 4 /\ Size(points2) = 4)
       => solveHomogeneous(BuildA(points1, points2)) # Null

\* 4 coincident source points have given a matrix
SolverTotalWitness ==
  /\ Solved4
  /\ Degenerate(points1)
  /\ \A k \in 0..3 : points1[k] = points1[0]
  /\ ret # Null
  /\ Is3x3(ret)

\* the matrix of the 4-point Solver before the division by H[2][2]
Unnormalized(p1, p2) == Reshaped(solveHomogeneous(BuildA(p1, p2)))

\* C21: every matrix the 4-point Solver returns has H[2][2] = 1; H[2][2] is 1
\* before the division already, so the branch for |H[2][2]| < 1e-9 is not
\* taken and the division changes no entry
Normalized1 ==
  /\ Solved4 =>
       /\ ret[2][2] = One
       /\ ~BelowEps(Unnormalized(points1, points2)[2][2])
       /\ \A r, c \in 0..2 : Unnormalized(points1, points2)[r][c] = ret[r][c]
  /\ \A t \in fits : t.H # Null => t.H[2][2] = One

\* a perspective matrix with entries that are not integers has been
\* returned with H[2][2] = 1, and the trials of a call have fitted matrices
Normalized1Witness ==
  /\ Solved4
  /\ ret[2][2] = One
  /\ ret[2][0] # Zero
  /\ \E r, c \in 0..2 : ret[r][c][2] > 1

Normalized1Fitted ==
  /\ pc = "done"
  /\ \E t \in fits : t.H # Null /\ t.H # Identity3 /\ t.H[2][2] = One

\* C22: length(points1) - length(points2) is 0 or 1, and 1 exactly when
\* nextImageToMark = 2; a click on the image that is not next adds no point
PointPairing ==
  /\ Size(points1) - Size(points2) \in {0, 1}
  /\ (Size(points1) - Size(points2) = 1) <=> (nextImageToMark = 2)
  /\ (clicked # Null /\ clicked.image # clicked.next) => ~clicked.added

\* the same for the states no detection has led to: PointPairingMarked says
\* which part of the behaviour the invariant holds for
PointPairingMarked ==
  ("AI Detection Successful" \notin toasts) => PointPairing

\* the canvas a call of drawTransformedImage leaves when it runs alone on
\* the matrix stored and the splits as they are now
LatestRaster ==
  OnImagesLoaded(Cleared(image2),
                 [matrix |-> homographyMatrix, source |-> image1, dest |-> image2,
                  splitX |-> splitX, splitY |-> splitY]).canvas

\* every call started has run its callbacks
AllLoaded == last # Null /\ draws = << >> /\ ~effectPending

\* C23: once all load callbacks have run the canvas shows the raster for
\* the most recent splitX, splitY and homography, in every interleaving of
\* the callbacks of overlapping calls
LatestRenderWins == AllLoaded => (canvas = LatestRaster)

\* the canvas shows the raster of the call whose body ran last
LastBodyWins == AllLoaded => (canvas = ResultOn(image2))

\* the last call has finished with the warp written and nothing has touched
\* the canvas since
WarpFinished == Finished /\ "warp" \in last.wrote

\* sourceVec of the destination pixel (x, y) in the call that has finished
LastVec(x, y) == SourceVec(invert3x3(last.matrix), x, y)

\* the neighbours, weights and indices of the sample at (sx, sy) for the
\* destination pixel (x, y) are within the two images, and the pixel holds
\* the opaque sample
WithinImages(src, dst, sx, sy, x, y) ==
  /\ 0 <= RFloor(sx)
  /\ RFloor(sx) <= Ceil(src.w, RFloor(sx))
  /\ Ceil(src.w, RFloor(sx)) <= src.w - 1
  /\ 0 <= RFloor(sy)
  /\ RFloor(sy) <= Ceil(src.h, RFloor(sy))
  /\ Ceil(src.h, RFloor(sy)) <= src.h - 1
  /\ RLe(Zero, RSub(sx, R(RFloor(sx)))) /\ RLt(RSub(sx, R(RFloor(sx))), One)
  /\ RLe(Zero, RSub(sy, R(RFloor(sy)))) /\ RLt(RSub(sy, R(RFloor(sy))), One)
  /\ SourceReads(src, RFloor(sx), RFloor(sy)) \subseteq 0..(4 * src.w * src.h - 1)
  /\ \A c \in 0..3 : DestIndex(dst.w, x, y) + c \in 0..(4 * dst.w * dst.h - 1)
  /\ canvas.data[DestIndex(dst.w, x, y) + 3] = 255

\* the destination pixel (x, y) of the call that has finished: left
\* transparent when sw = 0, within the images when (sx, sy) passes the test
PixelInBounds(x, y) ==
  IF LastVec(x, y)[2] = Zero
  THEN canvas.data[DestIndex(image2.w, x, y) + 3] = 0
  ELSE InSource(image1, RDiv(LastVec(x, y)[0], LastVec(x, y)[2]),
                        RDiv(LastVec(x, y)[1], LastVec(x, y)[2]))
         => WithinImages(image1, image2,
                         RDiv(LastVec(x, y)[0], LastVec(x, y)[2]),
                         RDiv(LastVec(x, y)[1], LastVec(x, y)[2]), x, y)

\* C24: bilinear sampling stays in bounds: for every destination pixel
\* whose (sx, sy) passes the range test, 0 <= x0 <= x1 <= w1 - 1 and
\* 0 <= y0 <= y1 <= h1 - 1, tx and ty lie in [0, 1), every source index read
\* lies in [0, 4 w1 h1) and every destination index written in
\* [0, 4 w2 h2); a pixel whose sw is 0 is not sampled
SamplingInBounds ==
  WarpFinished =>
    \A x \in 0..(image2.w - 1), y \in 0..(image2.h - 1) : PixelInBounds(x, y)

\* the pixel (x, y) passes the range test with Math.min holding x_ceil back
ClampedAt(x, y) ==
  /\ LastVec(x, y)[2] # Zero
  /\ InSource(image1, RDiv(LastVec(x, y)[0], LastVec(x, y)[2]),
                       RDiv(LastVec(x, y)[1], LastVec(x, y)[2]))
  /\ RFloor(RDiv(LastVec(x, y)[0], LastVec(x, y)[2])) + 1 > image1.w - 1

\* a finished warp with a pixel whose sw is 0 and a sampled pixel on the
\* last column of image 1
SamplingInBoundsWitness ==
  /\ WarpFinished
  /\ \E x \in 0..(image2.w - 1), y \in 0..(image2.h - 1) : LastVec(x, y)[2] = Zero
  /\ \E x \in 0..(image2.w - 1), y \in 0..(image2.h - 1) : ClampedAt(x, y)

====
